---- MODULE Spec2Model ----
(***************************************************************************)
(* A model of the similarity scoring engine of ssok-log-web:               *)
(*   src/similarity.js      vector metrics, calculateAllSimilarities,      *)
(*                          calculateSTTEnhancedSimilarities,              *)
(*                          analyzeSimilarities                            *)
(*   src/unnamed/part_002   stt-similarity.js: Jaro-Winkler, Levenshtein,  *)
(*                          Korean phonetic similarity, the error-pattern  *)
(*                          lexicon and its corrector                      *)
(*                                                                         *)
(* Every function of the source is a pure function, so each is an operator *)
(* computed the way the code computes it, and each specification draws the *)
(* arguments of one call in Init and applies one function per action.      *)
(*                                                                         *)
(* Numbers.  Scores are JavaScript doubles.  A score the code rounds with  *)
(* Math.round(x * 1000) / 1000 is held as the integer x * 1000             *)
(* ("thousandths"); Math.round rounds halves up.  NaN and the infinities   *)
(* are separate values (see the numbers of the vector metrics).  The       *)
(* arithmetic is exact decimal arithmetic: where a weighted sum of scores  *)
(* falls exactly on a half of a thousandth, the binary doubles of the      *)
(* program may fall just short of it and round one thousandth lower.       *)
(*                                                                         *)
(* Strings.  A JavaScript string is the sequence of its UTF-16 code units; *)
(* a code unit is written as an ASCII name: a Hangul syllable by its       *)
(* romanised jamo ("p_eu" is U+D504), a compatibility jamo with the prefix *)
(* "jamo_" ("jamo_p" is U+314D), ASCII characters as themselves.           *)
(***************************************************************************)
EXTENDS Integers, Sequences, FiniteSets, TLC

VARIABLES
    pc,            \* "ready": arguments drawn, no call made; "done": one call returned or threw
    op,            \* the function that was called ("none" before the call)
    text1, text2,  \* the two text arguments (JavaScript values)
    keyword,       \* the targetKeyword argument (a JavaScript value)
    vec1, vec2,    \* the two vector arguments (sequences of integers)
    options,       \* the options argument of calculateAllSimilarities
    similarities,  \* the metric map passed to analyzeSimilarities
    sttModule,     \* typeof STTSimilarity: "object" when the module is loaded, else "undefined"
    lexicon,       \* the module-level object KOREAN_STT_ERROR_PATTERNS of stt-similarity.js
    simModule,     \* typeof SimilarityCalculator, as sttModule
    calls,         \* how many calls the client has made so far
    result         \* what the call produced: a returned value or a thrown error

vars == <<pc, op, text1, text2, keyword, vec1, vec2, options, similarities, sttModule,
          lexicon, simModule, calls, result>>

(***************************************************************************)
(* Bounds of the model.                                                    *)
(***************************************************************************)
\* longest text over Alphabet drawn for the string metrics
MaxLen == 4

\* most tokens a text drawn for the corrector is put together from
MaxTokens == 2

(***************************************************************************)
(* Generic helpers.                                                        *)
(***************************************************************************)
Min2(a, b) == IF a <= b THEN a ELSE b

Max2(a, b) == IF a >= b THEN a ELSE b

Abs(a) == IF a < 0 THEN -a ELSE a

\* All sequences over S of length exactly n / at most n.
RECURSIVE SeqsOfLen(_, _)
SeqsOfLen(S, n) ==
    IF n = 0 THEN {<<>>}
    ELSE {Append(s, x) : s \in SeqsOfLen(S, n - 1), x \in S}

SeqsUpTo(S, n) == UNION {SeqsOfLen(S, k) : k \in 0..n}

\* Math.round(1000 * num / den) for integers num >= 0, den > 0 (halves up).
RoundMilli(num, den) == (2000 * num + den) \div (2 * den)

(***************************************************************************)
(* JavaScript values passed as text arguments.                             *)
(***************************************************************************)
Str(s) == [t |-> "string", s |-> s]

Null == [t |-> "null", s |-> <<>>]

Undefined == [t |-> "undefined", s |-> <<>>]

\* what a call produces: a returned value, or a thrown TypeError
Returned(v) == [kind |-> "return", value |-> v]

TypeError == [kind |-> "throw", error |-> "TypeError"]

\* a non-string, truthy value (the number 5)
NumberFive == [t |-> "number", s |-> <<>>]

IsString(x) == x.t = "string"

\* JavaScript truthiness: !x is ~Truthy(x)
Truthy(x) == (x.t = "string" /\ Len(x.s) > 0) \/ x.t = "number"

\* the guard without its tests !s1 and !s2
Degenerate_TypeTestOnly(s1, s2) == ~IsString(s1) \/ ~IsString(s2)

\* the guard shared by the three string metrics:
\* !s1 || !s2 || typeof s1 !== 'string' || typeof s2 !== 'string'
Degenerate(s1, s2) ==
    ~Truthy(s1) \/ ~Truthy(s2) \/ ~IsString(s1) \/ ~IsString(s2)

(***************************************************************************)
(* 1. Jaro-Winkler (part_002 lines 11-76).  Indices are 1-based here.      *)
(***************************************************************************)
\* the first j in lo..hi (ascending) that is unmatched in s2 and carries c; 0 if none
RECURSIVE FirstFree(_, _, _, _, _)
FirstFree(c, b, m2, lo, hi) ==
    IF lo > hi THEN 0
    ELSE IF lo \notin m2 /\ b[lo] = c THEN lo
    ELSE FirstFree(c, b, m2, lo + 1, hi)

\* the matching loop (lines 33-45): <<s1Matches, s2Matches>> as index sets
RECURSIVE JaroMatches(_, _, _, _, _, _)
JaroMatches(a, b, matchWindow, i, m1, m2) ==
    IF i > Len(a) THEN <<m1, m2>>
    ELSE LET start == Max2(1, i - matchWindow)
             end   == Min2(i + matchWindow, Len(b))
             j     == FirstFree(a[i], b, m2, start, end)
         IN  IF j = 0
             THEN JaroMatches(a, b, matchWindow, i + 1, m1, m2)
             ELSE JaroMatches(a, b, matchWindow, i + 1, m1 \cup {i}, m2 \cup {j})

\* the characters of s at the indices in m, in ascending index order
RECURSIVE MatchedChars(_, _, _)
MatchedChars(s, m, i) ==
    IF i > Len(s) THEN <<>>
    ELSE IF i \in m THEN <<s[i]>> \o MatchedChars(s, m, i + 1)
    ELSE MatchedChars(s, m, i + 1)

\* the transposition loop (lines 50-58): the k-th matched characters that differ
JaroTranspositions(a, b, m1, m2) ==
    LET ca == MatchedChars(a, m1, 1)
        cb == MatchedChars(b, m2, 1)
    IN  Cardinality({k \in 1..Len(ca) : ca[k] # cb[k]})

\* the common prefix loop (lines 64-71): stops at the first mismatch, at most 4
RECURSIVE CommonPrefix(_, _, _)
CommonPrefix(a, b, i) ==
    IF i > Min2(Min2(Len(a), Len(b)), 4) THEN 0
    ELSE IF a[i] = b[i] THEN 1 + CommonPrefix(a, b, i + 1)
    ELSE 0

\* JaroWinklerOf with the match window taken from the first string alone
JaroWinklerOf_WindowOfFirst(a, b) ==
    LET len1 == Len(a)
        len2 == Len(b)
        matchWindow == (len1 \div 2) - 1
    IN  IF matchWindow < 0 THEN 0
        ELSE LET mm == JaroMatches(a, b, matchWindow, 1, {}, {})
                 matches == Cardinality(mm[1])
             IN  IF matches = 0 THEN 0
                 ELSE LET transpositions == JaroTranspositions(a, b, mm[1], mm[2])
                          jd == 6 * len1 * len2 * matches
                          jn == 2 * matches * matches * len2
                                + 2 * matches * matches * len1
                                + (2 * matches - transpositions) * len1 * len2
                          prefix == CommonPrefix(a, b, 1)
                      IN  RoundMilli(10 * jn + prefix * (jd - jn), 10 * jd)

\* lines 18-75 for two distinct non-empty strings, in thousandths.
\* jaro = (m/len1 + m/len2 + (m - t/2)/m) / 3 = jn / jd, and
\* jaroWinkler = jaro + 0.1 * prefix * (1 - jaro) = (10*jn + prefix*(jd - jn)) / (10*jd)
JaroWinklerOf(a, b) ==
    LET len1 == Len(a)
        len2 == Len(b)
        matchWindow == (Max2(len1, len2) \div 2) - 1
    IN  IF matchWindow < 0 THEN 0
        ELSE LET mm == JaroMatches(a, b, matchWindow, 1, {}, {})
                 matches == Cardinality(mm[1])
             IN  IF matches = 0 THEN 0
                 ELSE LET transpositions == JaroTranspositions(a, b, mm[1], mm[2])
                          jd == 6 * len1 * len2 * matches
                          jn == 2 * matches * matches * len2
                                + 2 * matches * matches * len1
                                + (2 * matches - transpositions) * len1 * len2
                          prefix == CommonPrefix(a, b, 1)
                      IN  RoundMilli(10 * jn + prefix * (jd - jn), 10 * jd)

\* jaroWinklerSimilarity without the identity test of line 16
jaroWinklerSimilarity_NoIdentityTest(s1, s2) ==
    IF Degenerate(s1, s2) THEN 0
    ELSE JaroWinklerOf(s1.s, s2.s)

jaroWinklerSimilarity(s1, s2) ==
    IF Degenerate(s1, s2) THEN 0
    ELSE IF s1 = s2 THEN 1000
    ELSE JaroWinklerOf(s1.s, s2.s)

(***************************************************************************)
(* 2. Levenshtein (part_002 lines 79-126).  A row is a sequence of         *)
(* len2 + 1 cells, cell j of the code at index j + 1; -1 is an unwritten   *)
(* cell of `new Array(len2 + 1)`.                                          *)
(***************************************************************************)
\* the inner loop (lines 105-113): fills currRow[1..len2] for row i
RECURSIVE LevInner(_, _, _, _, _, _)
LevInner(a, b, i, j, prevRow, currRow) ==
    IF j > Len(b) THEN currRow
    ELSE LET cost == IF a[i] = b[j] THEN 0 ELSE 1
             cell == Min2(Min2(currRow[j] + 1, prevRow[j + 1] + 1), prevRow[j] + cost)
         IN  LevInner(a, b, i, j + 1, prevRow, [currRow EXCEPT ![j + 1] = cell])

\* the outer loop (lines 102-117): returns prevRow after the last swap
RECURSIVE LevOuter(_, _, _, _, _)
LevOuter(a, b, i, prevRow, currRow) ==
    IF i > Len(a) THEN prevRow
    ELSE LET filled == LevInner(a, b, i, 1, prevRow, [currRow EXCEPT ![1] = i])
         IN  LevOuter(a, b, i + 1, filled, prevRow)

\* the first row left as new Array made it, its loop (lines 97-99) left out
editDistance_NoFirstRow(a, b) ==
    LET prevRow == [j \in 1..(Len(b) + 1) |-> 0]
        currRow == [j \in 1..(Len(b) + 1) |-> -1]
    IN  LevOuter(a, b, 1, prevRow, currRow)[Len(b) + 1]

editDistance(a, b) ==
    LET prevRow == [j \in 1..(Len(b) + 1) |-> j - 1]
        currRow == [j \in 1..(Len(b) + 1) |-> -1]
    IN  LevOuter(a, b, 1, prevRow, currRow)[Len(b) + 1]

levenshteinSimilarity(s1, s2) ==
    IF Degenerate(s1, s2) THEN 0
    ELSE IF s1 = s2 THEN 1000
    ELSE IF Len(s1.s) = 0 THEN 0
    ELSE IF Len(s2.s) = 0 THEN 0
    ELSE LET maxLength == Max2(Len(s1.s), Len(s2.s))
         IN  RoundMilli(maxLength - editDistance(s1.s, s2.s), maxLength)

(***************************************************************************)
(* 3. Korean phonetic similarity (part_002 lines 129-199).                 *)
(***************************************************************************)
\* phoneticMap (lines 137-158): keys are compatibility jamo
phoneticMap ==
    [ jamo_p  |-> {"jamo_k", "jamo_b"},
      jamo_k  |-> {"jamo_p", "jamo_g", "jamo_t"},
      jamo_t  |-> {"jamo_d", "jamo_ch", "jamo_k"},
      jamo_ch |-> {"jamo_t", "jamo_j", "jamo_s"},
      jamo_b  |-> {"jamo_p", "jamo_m"},
      jamo_d  |-> {"jamo_t", "jamo_n"},
      jamo_g  |-> {"jamo_k"},
      jamo_j  |-> {"jamo_ch"},
      jamo_s  |-> {"jamo_ch"},
      jamo_eo |-> {"jamo_o", "jamo_eu"},
      jamo_e  |-> {"jamo_ae", "jamo_ye"},
      jamo_oe |-> {"jamo_we", "jamo_wae", "jamo_o"},
      jamo_ae |-> {"jamo_e", "jamo_wae"},
      jamo_o  |-> {"jamo_eo", "jamo_oe", "jamo_u"},
      jamo_u  |-> {"jamo_eu", "jamo_o"},
      jamo_eu |-> {"jamo_u", "jamo_eo"},
      jamo_i  |-> {"jamo_e"} ]

\* getPhoneticScore without the reverse lookup of lines 168-170
getPhoneticScore_ForwardOnly(char1, char2) ==
    IF char1 = char2 THEN 10
    ELSE IF char1 \in DOMAIN phoneticMap /\ char2 \in phoneticMap[char1] THEN 8
    ELSE 0

\* getPhoneticScore (lines 161-173), in tenths: 1 -> 10, 0.8 -> 8
getPhoneticScore(char1, char2) ==
    IF char1 = char2 THEN 10
    ELSE IF char1 \in DOMAIN phoneticMap /\ char2 \in phoneticMap[char1] THEN 8
    ELSE IF char2 \in DOMAIN phoneticMap /\ char1 \in phoneticMap[char2] THEN 8
    ELSE 0

\* the position loop (lines 185-188): totalScore in tenths
RECURSIVE PhoneticTotal(_, _, _, _)
PhoneticTotal(a, b, i, minLen) ==
    IF i > minLen THEN 0
    ELSE getPhoneticScore(a[i], b[i]) + PhoneticTotal(a, b, i + 1, minLen)

\* lines 176-198 for two distinct non-empty strings, in thousandths:
\* (total/comparisons) * (1 - 0.5 * (maxLen - minLen)/maxLen)
\*   = total * (maxLen + minLen) / (2 * minLen * maxLen)
PhoneticOf(a, b) ==
    LET maxLen == Max2(Len(a), Len(b))
        minLen == Min2(Len(a), Len(b))
        totalScore == PhoneticTotal(a, b, 1, minLen)
    IN  IF minLen > 0
        THEN RoundMilli(totalScore * (maxLen + minLen), 20 * minLen * maxLen)
        ELSE 0

koreanPhoneticSimilarity(s1, s2) ==
    IF Degenerate(s1, s2) THEN 0
    ELSE IF s1 = s2 THEN 1000
    ELSE PhoneticOf(s1.s, s2.s)

(***************************************************************************)
(* 4. calculateSTTSimilarity (part_002 lines 202-228).  A weights object   *)
(* is a function from some of the three metric names to tenths (0.4 -> 4). *)
(***************************************************************************)
defaultWeights == [jaroWinkler |-> 4, levenshtein |-> 3, phonetic |-> 3]

\* { ...defaultWeights, ...weights } (line 209)
SpreadWeights(weights) ==
    [k \in DOMAIN defaultWeights |->
        IF k \in DOMAIN weights THEN weights[k] ELSE defaultWeights[k]]

\* Math.round(weightedScore * 1000) for a weighted sum in ten-thousandths
RoundTenth(sum) == (sum + 5) \div 10

\* lines 218-227, from the three metric values
STTResult(finalWeights, metrics) ==
    LET weightedScore == finalWeights.jaroWinkler * metrics.jaroWinkler
                         + finalWeights.levenshtein * metrics.levenshtein
                         + finalWeights.phonetic * metrics.phonetic
    IN  [jaroWinkler |-> metrics.jaroWinkler,
         levenshtein |-> metrics.levenshtein,
         phonetic    |-> metrics.phonetic,
         weighted    |-> RoundTenth(weightedScore),
         breakdown   |-> metrics]

\* (a value bound in a one-element set is computed once, as a const is)
calculateSTTSimilarity(s1, s2, weights) ==
    CHOOSE r \in
        {STTResult(SpreadWeights(weights), metrics) :
            metrics \in {[jaroWinkler |-> jaroWinklerSimilarity(s1, s2),
                          levenshtein |-> levenshteinSimilarity(s1, s2),
                          phonetic    |-> koreanPhoneticSimilarity(s1, s2)]}} : TRUE

(***************************************************************************)
(* 5. The error-pattern lexicon (part_002 lines 231-266): the value the    *)
(* module-level object is created with (the variable lexicon holds the     *)
(* object), in insertion order, which is the order Object.entries walks    *)
(* it: each entry is <<canonical form, <<mis-recognised variants>>>>.      *)
(***************************************************************************)
KOREAN_STT_ERROR_PATTERNS ==
    <<
      <<<<"kk_eu_t", "n_a", "n_eu_n">>,
        <<<<"kk_eu_nh", "n_a", "n_eu_n">>,
          <<"kk_eu_n", "n_a", "n_eu_n">>,
          <<"kk_eu_ng", "n_a", "n_eu_n">>>>>>,
      <<<<"d_o", "x_wa", "d_eu", "r_i", "g_e_ss", "s_eu_b", "n_i", "d_a">>,
        <<<<"b_o", "x_a_n", "d_eu", "r_i", "g_e_ss", "s_eu_b", "n_i", "d_a">>,
          <<"d_o", "x_a_n", "d_eu", "r_i", "g_e_ss", "s_eu_b", "n_i", "d_a">>,
          <<"d_o", "x_wa", "d_eu", "g_i", "g_e_ss", "s_eu_b", "n_i", "d_a">>,
          <<"d_o", "x_wa", "d_eu", "r_i_b", "g_e_ss", "s_eu_b", "n_i", "d_a">>>>>>,
      <<<<"j_u_n", "b_i">>,
        <<<<"j_eu_n", "b_i">>,
          <<"j_u_n", "b_ae">>,
          <<"j_yu_ng", "b_i">>>>>>,
      <<<<"h_wa_g", "x_i_n">>,
        <<<<"h_wa", "g_i_n">>,
          <<"h_wa_g", "g_i_n">>,
          <<"h_wa_g", "x_i_n", "h_ae">>,
          <<"h_wa_g", "x_i_n", "x_eu_l">>>>>>,
      <<<<"p_i_l", "x_yo">>,
        <<<<"p_i_ng", "x_yo">>,
          <<"b_i", "r_yo">>,
          <<"p_i_l", "r_yo">>,
          <<"p_i_l", "x_yo", "h_ae">>>>>>,
      <<<<"s_eo", "r_yu">>,
        <<<<"s_eo", "r_wi">>,
          <<"s_eo_l", "r_yu">>,
          <<"s_yeo", "r_yu">>,
          <<"s_eo", "r_u">>>>>>,
      <<<<"k_eu_l", "r_a", "x_u", "d_eu">>,
        <<<<"k_eu_l", "r_a", "x_u", "d_u">>,
          <<"k_eu_l", "r_a", "x_u", "d_eu", "r_o">>,
          <<"k_eu_l", "r_a", "d_u_s">>,
          <<"k_eu_l", "r_a", "x_u", "d_eu", "r_eu_l">>>>>>,
      <<<<"x_i_n", "ch_i">>,
        <<<<"x_i_n", "ch_i", "r_o">>,
          <<"x_i_n", "j_i">>,
          <<"x_i_n", "ch_a">>,
          <<"x_i_n", "ch_i", "r_eu_l">>>>>>,
      <<<<"x_oe", "b_u">>,
        <<<<"x_we", "b_u">>,
          <<"x_oe", "b_u", "r_eu_l">>,
          <<"x_oe", "b_yu">>>>>>,
      <<<<"g_o", "g_ae_g", "n_i_m">>,
        <<<<"g_o", "g_ae_g", "n_i_m", "kk_e">>,
          <<"g_o", "g_ae_g", "n_i_b">>,
          <<"g_o", "g_ae_g", "n_i_m", "x_i">>,
          <<"g_o", "g_ae_g", "n_i_m", "x_eu_l">>>>>>,
      <<<<"t_i", "t_a", "n_yu_m">>,
        <<<<"t_i", "p_a", "n_yu_m">>,
          <<"k_i", "t_a", "n_yu_m">>,
          <<"t_i", "t_a", "n_i", "x_u_m">>>>>>,
      <<<<"p_eu", "r_o">>,
        <<<<"k_eu", "r_o">>,
          <<"p_eu", "r_o", "r_eu_l">>,
          <<"p_eu_l", "r_o">>>>>>,
      <<<<"k_ae_n", "b_a">>,
        <<<<"k_ae_n", "b_a", "r_eu_l">>,
          <<"k_e_n", "b_a">>,
          <<"k_ae_n", "b_a", "s_eu">>>>>>,
      <<<<"s_eu", "k_e", "x_i_l", "r_eo">>,
        <<<<"s_eu", "k_e", "x_i_l", "r_o">>,
          <<"s_eu", "k_e", "x_i_l", "r_eo", "r_eu_l">>,
          <<"s_eu", "k_e", "x_i_l">>>>>>,
      <<<<"b_eo_n", "g_eo", "r_o", "x_u", "s_i", "g_e_ss", "j_i", "m_a_n">>,
        <<<<"b_eo_n", "g_eo", "r_o", "x_u", "s_yeo_ss", "j_i", "m_a_n">>,
          <<"b_eo_n", "g_eo", "r_o", "s_i", "g_e_ss", "j_i", "m_a_n">>,
          <<"b_eo_n", "g_eo", "r_o", "x_u", "s_i", "g_e_ss", "s_eu_b", "n_i", "d_a", "m_a_n">>,
          <<"b_eo_n", "g_eo", "r_o", "x_u", "s_i", "g_e_ss", "j_i", "m_a_n", "s_eo">>>>>>,
      <<<<"j_oe", "s_o_ng", "h_a", "j_i", "m_a_n">>,
        <<<<"j_oe", "s_o_ng", "h_a_b", "n_i", "d_a", "m_a_n">>,
          <<"j_oe", "s_o_ng", "h_a", "s_i", "m_a_n">>,
          <<"j_oe", "s_o_ng", "h_a", "j_i", "m_a_n", "s_eo">>,
          <<"j_oe", "s_o_ng", "h_a", "j_i", "m_a_n", "x_eu_n">>>>>>,
      <<<<"g_a_m", "s_a", "h_a_b", "n_i", "d_a">>,
        <<<<"g_a_m", "s_a", "h_a_b", "n_i", "d_a", "x_yo">>,
          <<"g_a_m", "s_a", "d_eu", "r_i_b", "n_i", "d_a">>,
          <<"g_a_m", "s_a", "h_ae", "x_yo">>,
          <<"g_o", "m_a_b", "s_eu_b", "n_i", "d_a">>>>>>,
      <<<<"8", "x_i_n", "ch_i">>,
        <<<<"x_a_l", " ", "x_i_n", "ch_i">>,
          <<"8", " ", "x_i_n", "ch_i">>,
          <<"p_a_l", " ", "x_i_n", "ch_i">>,
          <<"p_a_l", "x_i_n", "ch_i">>>>>>,
      <<<<"1", "0", "b_u_n">>,
        <<<<"s_i_b", "b_u_n">>,
          <<"1", "0", " ", "b_u_n">>,
          <<"x_yeo_l", "b_u_n">>,
          <<"1", "0", "b_u_n", "g_a_n">>>>>>,
      <<<<"4", ".", "2", "m", "m">>,
        <<<<"4", "j_eo_m", "2", "m_i", "r_i">>,
          <<"4", ".", "2", "m_i", "r_i">>,
          <<"s_a", "j_eo_m", "x_i", "m_i", "r_i">>>>>>,
      <<<<"C", "C", "T", "V">>,
        <<<<"ss_i", "ss_i", "t_i", "b_i">>,
          <<"C", "C", " ", "T", "V">>,
          <<"s_i", "s_i", "t_i", "b_i">>>>>>,
      <<<<"W", "i", "F", "i">>,
        <<<<"x_wa", "x_i", "p_a", "x_i">>,
          <<"x_wa", "x_i", " ", "p_a", "x_i">>,
          <<"x_wa", "p_a", "x_i">>>>>>,
      <<<<"U", "S", "B">>,
        <<<<"x_yu", "x_e", "s_eu", "b_i">>,
          <<"U", " ", "S", " ", "B">>,
          <<"x_yu", "x_e", "s_eu", "b_i", "p_o", "t_eu">>>>>>
    >>

(***************************************************************************)
(* 6. correctSTTErrorsByPattern (part_002 lines 269-295).                  *)
(***************************************************************************)
\* String.prototype.includes for a non-empty needle
Includes(text, needle) ==
    \E i \in 1..(Len(text) - Len(needle) + 1) :
        SubSeq(text, i, i + Len(needle) - 1) = needle

\* String.prototype.indexOf: the 0-based index of the first occurrence, or -1
IndexOf(text, needle) ==
    LET hits == {i \in 1..(Len(text) - Len(needle) + 1) :
                    SubSeq(text, i, i + Len(needle) - 1) = needle}
    IN  IF hits = {} THEN -1
        ELSE (CHOOSE i \in hits : \A j \in hits : i <= j) - 1

\* new RegExp(pattern) matching at index i: "." matches any character, every
\* other character of the lexicon is literal
RegExpMatchesAt(text, i, pattern) ==
    /\ i + Len(pattern) - 1 <= Len(text)
    /\ \A k \in 1..Len(pattern) : pattern[k] = "." \/ pattern[k] = text[i + k - 1]

\* text.replace(new RegExp(pattern, 'g'), replacement): every match, left to
\* right, without overlap
RECURSIVE ReplaceAll(_, _, _, _)
ReplaceAll(text, i, pattern, replacement) ==
    IF i > Len(text) THEN <<>>
    ELSE IF RegExpMatchesAt(text, i, pattern)
         THEN replacement \o ReplaceAll(text, i + Len(pattern), pattern, replacement)
         ELSE <<text[i]>> \o ReplaceAll(text, i + 1, pattern, replacement)

\* line 278 without the keyword filter: every matching entry is applied
KeywordRelevant_NoFilter(correct, targetKeyword) == TRUE

\* line 278: !targetKeyword || correct.includes(targetKeyword) || targetKeyword.includes(correct)
KeywordRelevant(correct, targetKeyword) ==
    \/ ~Truthy(targetKeyword)
    \/ Includes(correct, targetKeyword.s)
    \/ Includes(targetKeyword.s, correct)

\* one pass of the inner loop body (lines 276-286); st = [correctedText, corrections]
CorrectStep(text, targetKeyword, correct, error, st) ==
    IF Includes(st.correctedText, error) /\ KeywordRelevant(correct, targetKeyword)
    THEN [correctedText |-> ReplaceAll(st.correctedText, 1, error, correct),
          corrections   |-> Append(st.corrections,
                                   [original  |-> error,
                                    corrected |-> correct,
                                    position  |-> IndexOf(text, error)])]
    ELSE st

\* the inner loop (line 275) over the variants of one entry; the next pass
\* starts from the value the pass before it left
RECURSIVE CorrectVariants(_, _, _, _, _, _)
CorrectVariants(text, targetKeyword, correct, errors, k, st) ==
    IF k > Len(errors) THEN st
    ELSE CHOOSE r \in {CorrectVariants(text, targetKeyword, correct, errors, k + 1, next) :
                          next \in {CorrectStep(text, targetKeyword, correct, errors[k], st)}} :
             TRUE

\* the outer loop (line 274) over the entries of the lexicon
RECURSIVE CorrectEntries(_, _, _, _, _)
CorrectEntries(text, targetKeyword, patterns, e, st) ==
    IF e > Len(patterns) THEN st
    ELSE CHOOSE r \in {CorrectEntries(text, targetKeyword, patterns, e + 1, next) :
                          next \in {CorrectVariants(text, targetKeyword, patterns[e][1],
                                                    patterns[e][2], 1, st)}} :
             TRUE

\* A value that is not a string has no includes method (null, undefined: a
\* TypeError on the property read; a number: includes is not a function), so
\* the first test of line 276 throws.
correctSTTErrorsByPattern(text, targetKeyword) ==
    IF ~IsString(text) THEN TypeError
    ELSE LET st == CorrectEntries(text.s, targetKeyword, lexicon, 1,
                                  [correctedText |-> text.s, corrections |-> <<>>])
         IN  [kind |-> "return",
              correctedText  |-> Str(st.correctedText),
              corrections    |-> st.corrections,
              hasCorrections |-> Len(st.corrections) > 0]

(***************************************************************************)
(* 7. calculateEnhancedSTTSimilarity (part_002 lines 298-347).             *)
(* maxSimilarity is a weighted score (thousandths) or one multiplied by    *)
(* 0.95 or 0.9, so it is held in hundred-thousandths: 0.912 is 91200.      *)
(***************************************************************************)
NoWeights == [k \in {} |-> 0]

\* the test and the update shared by lines 313-317, 323-327 and 333-337:
\* the unpenalised score is compared, the penalised one is stored
EnhanceWith(correctedResult, penalty, appliedCorrections, st) ==
    IF correctedResult.weighted * 100 > st.maxSimilarity
    THEN [maxSimilarity |-> correctedResult.weighted * penalty,
          bestResult |-> correctedResult,
          appliedCorrections |-> appliedCorrections]
    ELSE st

\* lines 311-318: the s1-corrected configuration (0.95; the corrections are
\* pushed onto the list)
EnhanceFirst(s1, s2, correction1, st) ==
    IF correction1.hasCorrections
    THEN CHOOSE next \in
             {EnhanceWith(correctedResult, 95,
                          st.appliedCorrections \o correction1.corrections, st) :
                 correctedResult \in
                     {calculateSTTSimilarity(correction1.correctedText, s2, NoWeights)}} : TRUE
    ELSE st

\* lines 321-328: the s2-corrected configuration (0.95; the list is replaced)
EnhanceSecond(s1, s2, correction2, st) ==
    IF correction2.hasCorrections
    THEN CHOOSE next \in
             {EnhanceWith(correctedResult, 95, correction2.corrections, st) :
                 correctedResult \in
                     {calculateSTTSimilarity(s1, correction2.correctedText, NoWeights)}} : TRUE
    ELSE st

\* lines 331-338: both sides corrected (0.9)
EnhanceBoth(correction1, correction2, st) ==
    IF correction1.hasCorrections /\ correction2.hasCorrections
    THEN CHOOSE next \in
             {EnhanceWith(doubleCorrectedResult, 90,
                          correction1.corrections \o correction2.corrections, st) :
                 doubleCorrectedResult \in
                     {calculateSTTSimilarity(correction1.correctedText,
                                             correction2.correctedText, NoWeights)}} : TRUE
    ELSE st

\* lines 306-308
EnhanceStart(originalResult) ==
    [maxSimilarity |-> originalResult.weighted * 100,
     bestResult |-> originalResult,
     appliedCorrections |-> <<>>]

\* lines 340-346
EnhancedResult(originalResult, st) ==
    [kind |-> "return",
     jaroWinkler |-> st.bestResult.jaroWinkler,
     levenshtein |-> st.bestResult.levenshtein,
     phonetic    |-> st.bestResult.phonetic,
     weighted    |-> st.bestResult.weighted,
     breakdown   |-> st.bestResult.breakdown,
     enhanced    |-> st.maxSimilarity,
     originalSimilarity |-> originalResult.weighted,
     corrections |-> st.appliedCorrections,
     hasCorrections |-> Len(st.appliedCorrections) > 0]

\* lines 300-346 once the two corrections are at hand
EnhancedFrom(s1, s2, originalResult, correction1, correction2) ==
    IF correction1.kind = "throw" THEN correction1
    ELSE IF correction2.kind = "throw" THEN correction2
    ELSE CHOOSE r \in
             {EnhancedResult(originalResult, st3) :
                 st3 \in {EnhanceBoth(correction1, correction2, st2) :
                 st2 \in {EnhanceSecond(s1, s2, correction2, st1) :
                 st1 \in {EnhanceFirst(s1, s2, correction1,
                                       EnhanceStart(originalResult))}}}} : TRUE

calculateEnhancedSTTSimilarity(s1, s2, targetKeyword) ==
    CHOOSE r \in
        {EnhancedFrom(s1, s2, originalResult, correction1, correction2) :
            originalResult \in {calculateSTTSimilarity(s1, s2, NoWeights)},
            correction1 \in {correctSTTErrorsByPattern(s1, targetKeyword)},
            correction2 \in {correctSTTErrorsByPattern(s2, targetKeyword)}} : TRUE

\* calculateEnsemble (part_002 lines 362-365): enhanced.enhanced || enhanced.weighted,
\* in hundred-thousandths
EnsembleOf(enhanced) ==
    IF enhanced.kind = "throw" THEN enhanced
    ELSE [kind |-> "return",
          value |-> IF enhanced.enhanced # 0 THEN enhanced.enhanced
                    ELSE enhanced.weighted * 100]

calculateEnsemble(s1, s2, targetKeyword) ==
    CHOOSE r \in
        {EnsembleOf(enhanced) :
            enhanced \in {calculateEnhancedSTTSimilarity(s1, s2, targetKeyword)}} : TRUE

(***************************************************************************)
(* 8. Numbers of the vector metrics (src/similarity.js).                   *)
(*                                                                         *)
(* A vector component is a whole number of halves (2 is 1.0, 1 is 0.5), so *)
(* sums of products of components are whole numbers of quarters.  A value  *)
(* a metric returns before it is rounded is held in millionths, to six     *)
(* decimals: Math.sqrt is computed digit by digit and truncated, and a     *)
(* quotient is truncated downwards.  The rounded entries of a metric map   *)
(* are in thousandths, as everywhere else.                                 *)
(***************************************************************************)
\* how many units of a vector component make 1.0
Scale == 2

\* how many millionths make 1.0
Micro == 1000000

Number(v) == [k |-> "number", v |-> v]

NaN == [k |-> "NaN", v |-> 0]

PlusInfinity == [k |-> "Infinity", v |-> 0]

MinusInfinity == [k |-> "-Infinity", v |-> 0]

IsFinite(x) == x.k = "number"

\* Math.round(x * 1000) / 1000 of a value in millionths; Math.round(NaN) is NaN
Round3(x) == IF IsFinite(x) THEN Number((x.v + 500) \div 1000) ELSE x

\* the floor of the square root of a natural number
ISqrt(n) == CHOOSE r \in 0..n : r * r <= n /\ (r + 1) * (r + 1) > n

\* k more decimal digits of a square root, p the digits so far and r the
\* remainder (the schoolbook algorithm)
RECURSIVE SqrtDigits(_, _, _)
SqrtDigits(p, r, k) ==
    IF k = 0 THEN p
    ELSE CHOOSE next \in
             {SqrtDigits(10 * p + d, 100 * r - (20 * p + d) * d, k - 1) :
                 d \in {x \in 0..9 : /\ (20 * p + x) * x <= 100 * r
                                     /\ (20 * p + x + 1) * (x + 1) > 100 * r}} : TRUE

\* Math.sqrt(n) in millionths, n a natural number
SqrtMicro(n) ==
    CHOOSE s \in {SqrtDigits(root, n - root * root, 6) : root \in {ISqrt(n)}} : TRUE

\* vec.reduce((sum, x) => sum + x, 0) over the first n elements
RECURSIVE SumTo(_, _)
SumTo(f, n) == IF n = 0 THEN 0 ELSE SumTo(f, n - 1) + f[n]

Sum(f) == SumTo(f, Len(f))

\* sum of a[i] * b[i] (src/similarity.js line 17), in quarters
DotProduct(a, b) == Sum([i \in 1..Len(a) |-> a[i] * b[i]])

\* the sum under the square root of vectorMagnitude (line 8), in quarters
SquaredMagnitude(vec) == DotProduct(vec, vec)

\* vectorMagnitude (lines 7-9), in millionths
vectorMagnitude(vec) == SqrtMicro(SquaredMagnitude(vec)) \div Scale

(***************************************************************************)
(* 9. The vector metrics (src/similarity.js lines 12-156).  Each XxxOf is  *)
(* the function after its length test, returning a JavaScript number in    *)
(* millionths; the function itself returns that number or throws.          *)
(***************************************************************************)
VectorLengthError ==
    [kind |-> "throw", error |-> "Error", message |-> "vector lengths differ"]

WeightLengthError ==
    [kind |-> "throw", error |-> "Error", message |-> "weights length differs from the vectors"]

\* lines 17-27; dot / (m1 * m2) is computed as dot * sqrt(s1 * s2) / (s1 * s2)
CosineOf(a, b) ==
    IF vectorMagnitude(a) = 0 \/ vectorMagnitude(b) = 0 THEN Number(0)
    ELSE CHOOSE r \in
             {Number(Max2(-Micro, Min2(Micro, (DotProduct(a, b) * SqrtMicro(p)) \div p))) :
                 p \in {SquaredMagnitude(a) * SquaredMagnitude(b)}} : TRUE

cosineSimilarity(a, b) ==
    IF Len(a) # Len(b) THEN VectorLengthError ELSE Returned(CosineOf(a, b))

\* line 35: the dot product alone
FastCosineOf(a, b) == Number((DotProduct(a, b) * Micro) \div (Scale * Scale))

fastCosineSimilarity(a, b) ==
    IF Len(a) # Len(b) THEN VectorLengthError ELSE Returned(FastCosineOf(a, b))

\* lines 44-50; with d = sqrt(sum) / Scale, 1 / (1 + d) is computed as
\* Scale * (sqrt(sum) - Scale) / (sum - Scale^2)
EuclideanOf(a, b) ==
    CHOOSE r \in
        {Number(IF sum = Scale * Scale THEN Micro \div 2
                ELSE IF sum > Scale * Scale
                THEN (Scale * (SqrtMicro(sum) - Scale * Micro)) \div (sum - Scale * Scale)
                ELSE (Scale * (Scale * Micro - SqrtMicro(sum))) \div (Scale * Scale - sum)) :
            sum \in {Sum([i \in 1..Len(a) |-> (a[i] - b[i]) * (a[i] - b[i])])}} : TRUE

euclideanSimilarity(a, b) ==
    IF Len(a) # Len(b) THEN VectorLengthError ELSE Returned(EuclideanOf(a, b))

\* lines 59-64
ManhattanOf(a, b) ==
    Number((Scale * Micro) \div (Scale + Sum([i \in 1..Len(a) |-> Abs(a[i] - b[i])])))

manhattanSimilarity(a, b) ==
    IF Len(a) # Len(b) THEN VectorLengthError ELSE Returned(ManhattanOf(a, b))

\* A weights argument: an array of whole numbers, or undefined.
Array(w) == [t |-> "array", v |-> w]

NoArray == [t |-> "undefined", v |-> <<>>]

\* line 82
WeightAt(weights, i) == IF weights.t = "array" THEN weights.v[i] ELSE 1

\* lines 77-91: Math.sqrt of a negative norm is NaN, NaN === 0 is false, and
\* Math.max(-1, Math.min(1, NaN)) is NaN
WeightedFrom(dotProduct, normA, normB) ==
    IF normA < 0 \/ normB < 0 THEN NaN
    ELSE IF normA = 0 \/ normB = 0 THEN Number(0)
    ELSE Number(Max2(-Micro, Min2(Micro,
             (dotProduct * SqrtMicro(normA * normB)) \div (normA * normB))))

WeightedCosineOf(a, b, weights) ==
    CHOOSE r \in
        {WeightedFrom(dotProduct, normA, normB) :
            dotProduct \in {Sum([i \in 1..Len(a) |-> WeightAt(weights, i) * a[i] * b[i]])},
            normA \in {Sum([i \in 1..Len(a) |-> WeightAt(weights, i) * a[i] * a[i]])},
            normB \in {Sum([i \in 1..Len(a) |-> WeightAt(weights, i) * b[i] * b[i]])}} : TRUE

\* lines 68-92
weightedCosineSimilarity(a, b, weights) ==
    IF Len(a) # Len(b) THEN VectorLengthError
    ELSE IF weights.t = "array" /\ Len(weights.v) # Len(a) THEN WeightLengthError
    ELSE Returned(WeightedCosineOf(a, b, weights))

\* lines 100-121 with every sum multiplied by n: numerator n * sum(ab) - sum(a) * sum(b),
\* denominators n * sum(aa) - sum(a)^2; the quotient is not clamped
PearsonFrom(numerator, denominator1, denominator2) ==
    IF denominator1 = 0 \/ denominator2 = 0 THEN Number(0)
    ELSE Number((numerator * SqrtMicro(denominator1 * denominator2))
                    \div (denominator1 * denominator2))

PearsonOf(a, b) ==
    IF Len(a) = 0 THEN Number(0)
    ELSE CHOOSE r \in
             {PearsonFrom(numerator, denominator1, denominator2) :
                 numerator \in {Len(a) * DotProduct(a, b) - Sum(a) * Sum(b)},
                 denominator1 \in {Len(a) * DotProduct(a, a) - Sum(a) * Sum(a)},
                 denominator2 \in {Len(a) * DotProduct(b, b) - Sum(b) * Sum(b)}} : TRUE

pearsonCorrelation(a, b) ==
    IF Len(a) # Len(b) THEN VectorLengthError ELSE Returned(PearsonOf(a, b))

\* An ensemble weights argument: an object of weights in hundredths, null, or undefined.
Object(w) == [t |-> "object", v |-> w]

NullObject == [t |-> "null", v |-> <<>>]

NoObject == [t |-> "undefined", v |-> <<>>]

\* line 125: the default of the weights parameter
defaultEnsembleWeights == [cosine |-> 60, euclidean |-> 25, manhattan |-> 15]

\* one term of lines 131-133, in hundred-millionths; a missing weight is
\* undefined, and undefined * x is NaN
EnsembleTerm(w, key, x) ==
    IF key \in DOMAIN w /\ IsFinite(x) THEN Number(w[key] * x.v) ELSE NaN

EnsembleSum(w, cosine, euclidean, manhattan) ==
    LET terms == <<EnsembleTerm(w, "cosine", cosine),
                   EnsembleTerm(w, "euclidean", euclidean),
                   EnsembleTerm(w, "manhattan", manhattan)>>
    IN  IF \A i \in 1..3 : IsFinite(terms[i])
        THEN Number((terms[1].v + terms[2].v + terms[3].v) \div 100)
        ELSE NaN

\* lines 125-135; reading a property of null throws a TypeError
ensembleSimilarity(a, b, weights) ==
    IF Len(a) # Len(b) THEN VectorLengthError
    ELSE IF weights.t = "null" THEN TypeError
    ELSE Returned(EnsembleSum(IF weights.t = "undefined" THEN defaultEnsembleWeights
                               ELSE weights.v,
                              CosineOf(a, b), EuclideanOf(a, b), ManhattanOf(a, b)))

\* A threshold argument: a number of halves, or undefined.
Threshold(v) == [t |-> "number", v |-> v]

NoThreshold == [t |-> "undefined", v |-> 0]

\* line 138: the default of the threshold parameter, 0.5
defaultThreshold == Scale \div 2

\* lines 144-155, threshold in halves
JaccardOf(a, b, threshold) ==
    LET bin1 == [i \in 1..Len(a) |-> IF a[i] > threshold THEN 1 ELSE 0]
        bin2 == [i \in 1..Len(b) |-> IF b[i] > threshold THEN 1 ELSE 0]
        intersection == Sum([i \in 1..Len(a) |-> bin1[i] * bin2[i]])
        union == Sum([i \in 1..Len(a) |-> Max2(bin1[i], bin2[i])])
    IN  IF union = 0 THEN Number(0) ELSE Number((intersection * Micro) \div union)

jaccardSimilarity(a, b, threshold) ==
    IF Len(a) # Len(b) THEN VectorLengthError
    ELSE Returned(JaccardOf(a, b, IF threshold.t = "undefined" THEN defaultThreshold
                                  ELSE threshold.v))

(***************************************************************************)
(* 10. calculateAllSimilarities (src/similarity.js lines 159-205).  A      *)
(* metric map is the sequence of its entries in insertion order, which is  *)
(* the order Object.keys walks them in.                                    *)
(***************************************************************************)
Entry(key, value) == [key |-> key, value |-> value]

\* the options argument; {} has none of the three properties
Options(weights, ensembleWeights, jaccardThreshold) ==
    [weights |-> weights, ensembleWeights |-> ensembleWeights,
     jaccardThreshold |-> jaccardThreshold]

NoOptions == Options(NoArray, NoObject, NoThreshold)

\* line 167: both magnitudes within 1e-6 of 1
IsNormalized(a, b) ==
    Abs(vectorMagnitude(a) - Micro) < 1 /\ Abs(vectorMagnitude(b) - Micro) < 1

\* line 181: options.jaccardThreshold || 0.5 (undefined and 0 are falsy)
ThresholdOrDefault(jaccardThreshold) ==
    IF jaccardThreshold.t = "number" /\ jaccardThreshold.v # 0
    THEN jaccardThreshold
    ELSE Threshold(defaultThreshold)

\* the assignments of lines 173-189 in order: the key assigned to and what
\* the call on the right-hand side produced (an array is truthy, line 184)
Assignments(a, b, opts) ==
    <<[key |-> "cosine",
       r |-> IF IsNormalized(a, b) THEN fastCosineSimilarity(a, b)
             ELSE cosineSimilarity(a, b)],
      [key |-> "euclidean", r |-> euclideanSimilarity(a, b)],
      [key |-> "manhattan", r |-> manhattanSimilarity(a, b)],
      [key |-> "pearson", r |-> pearsonCorrelation(a, b)],
      [key |-> "jaccard",
       r |-> jaccardSimilarity(a, b, ThresholdOrDefault(opts.jaccardThreshold))]>>
    \o (IF opts.weights.t = "array"
        THEN <<[key |-> "weighted_cosine",
                r |-> weightedCosineSimilarity(a, b, opts.weights)]>>
        ELSE <<>>)
    \o <<[key |-> "ensemble", r |-> ensembleSimilarity(a, b, opts.ensembleWeights)]>>

\* lines 192-194
RoundAll(map) ==
    [i \in 1..Len(map) |->
        Entry(map[i].key, Round3(map[i].value))]

\* lines 199-201: the keys assigned before the throw
ZeroAll(map) ==
    [i \in 1..Len(map) |-> Entry(map[i].key, Number(0))]

\* lines 171-202: assignments are made until one throws
RECURSIVE TryAssign(_, _, _)
TryAssign(steps, i, map) ==
    IF i > Len(steps) THEN RoundAll(map)
    ELSE IF steps[i].r.kind = "throw" THEN ZeroAll(map)
    ELSE TryAssign(steps, i + 1,
                   Append(map, Entry(steps[i].key, steps[i].r.value)))

\* (the length test moved inside the try block: the error is caught)
calculateAllSimilarities_LengthTestInTry(a, b, opts) ==
    IF Len(a) # Len(b) THEN Returned(<<>>)
    ELSE CHOOSE r \in
             {Returned(TryAssign(steps, 1, <<>>)) :
                 steps \in {Assignments(a, b, opts)}} : TRUE

calculateAllSimilarities(a, b, opts) ==
    IF Len(a) # Len(b) THEN VectorLengthError
    ELSE CHOOSE r \in
             {Returned(TryAssign(steps, 1, <<>>)) :
                 steps \in {Assignments(a, b, opts)}} : TRUE

\* the value a key holds in a metric map (undefined when it has none)
UndefinedNumber == [k |-> "undefined", v |-> 0]

Lookup(map, key) ==
    IF \E i \in 1..Len(map) : map[i].key = key
    THEN map[CHOOSE i \in 1..Len(map) : map[i].key = key].value
    ELSE UndefinedNumber

Keys(map) == [i \in 1..Len(map) |-> map[i].key]

(***************************************************************************)
(* 11. calculateSTTEnhancedSimilarities (lines 208-256).  sttScore is a    *)
(* sum of products of thousandths and hundredths.                          *)
(***************************************************************************)
\* (the typeof test left out: the metrics are computed anyway)
STTMetrics_NoModuleTest(s1, s2, module) ==
    [jaroWinkler |-> jaroWinklerSimilarity(s1, s2),
     levenshtein |-> levenshteinSimilarity(s1, s2),
     phonetic    |-> koreanPhoneticSimilarity(s1, s2)]

\* lines 218-231
STTMetrics(s1, s2, module) ==
    IF module # "undefined"
    THEN [jaroWinkler |-> jaroWinklerSimilarity(s1, s2),
          levenshtein |-> levenshteinSimilarity(s1, s2),
          phonetic    |-> koreanPhoneticSimilarity(s1, s2)]
    ELSE [jaroWinkler |-> 0, levenshtein |-> 0, phonetic |-> 0]

\* lines 234-246 with the four weights equal
STTScore_EqualWeights(cosine, sttMetrics) ==
    IF IsFinite(cosine)
    THEN Number(25 * cosine.v + 25 * sttMetrics.jaroWinkler
                + 25 * sttMetrics.phonetic + 25 * sttMetrics.levenshtein)
    ELSE NaN

\* lines 234-246, in hundred-thousandths
STTScore(cosine, sttMetrics) ==
    IF IsFinite(cosine)
    THEN Number(40 * cosine.v + 25 * sttMetrics.jaroWinkler
                + 20 * sttMetrics.phonetic + 15 * sttMetrics.levenshtein)
    ELSE NaN

\* lines 249-255
HybridFrom(semanticSimilarities, sttMetrics) ==
    LET sttScore == STTScore(Lookup(semanticSimilarities, "cosine"), sttMetrics)
    IN  semanticSimilarities \o
        <<Entry("stt_jaro_winkler", Number(sttMetrics.jaroWinkler)),
          Entry("stt_levenshtein", Number(sttMetrics.levenshtein)),
          Entry("stt_phonetic", Number(sttMetrics.phonetic)),
          Entry("stt_ensemble",
                IF IsFinite(sttScore) THEN Number((sttScore.v + 50) \div 100) ELSE NaN)>>

calculateSTTEnhancedSimilarities(a, b, s1, s2, opts, module) ==
    IF Len(a) # Len(b) THEN VectorLengthError
    ELSE CHOOSE r \in
             {Returned(HybridFrom(semanticSimilarities.value, sttMetrics)) :
                 semanticSimilarities \in {calculateAllSimilarities(a, b, opts)},
                 sttMetrics \in {STTMetrics(s1, s2, module)}} : TRUE

(***************************************************************************)
(* 12. analyzeSimilarities (lines 259-279).  The values of the map are in  *)
(* thousandths; the average is not rounded by the code and is held in      *)
(* millionths.                                                             *)
(***************************************************************************)
Values(map) == [i \in 1..Len(map) |-> map[i].value]

\* Math.max(...values) and Math.min(...values): the infinities for no value,
\* NaN when a value is NaN
MathMax(values) ==
    IF \E i \in 1..Len(values) : ~IsFinite(values[i]) THEN NaN
    ELSE IF Len(values) = 0 THEN MinusInfinity
    ELSE Number(CHOOSE x \in {values[i].v : i \in 1..Len(values)} :
                    \A i \in 1..Len(values) : values[i].v <= x)

MathMin(values) ==
    IF \E i \in 1..Len(values) : ~IsFinite(values[i]) THEN NaN
    ELSE IF Len(values) = 0 THEN PlusInfinity
    ELSE Number(CHOOSE x \in {values[i].v : i \in 1..Len(values)} :
                    \A i \in 1..Len(values) : values[i].v >= x)

\* values.lastIndexOf(x) in the place of values.indexOf(x)
ValueIndexOf_Last(values, x) ==
    IF x.k # "NaN" /\ \E i \in 1..Len(values) : values[i] = x
    THEN (CHOOSE i \in 1..Len(values) :
              values[i] = x /\ \A j \in (i + 1)..Len(values) : values[j] # x) - 1
    ELSE -1

\* values.indexOf(x): the first index (from 0) holding x, -1 when none does;
\* NaN is never found
ValueIndexOf(values, x) ==
    IF x.k # "NaN" /\ \E i \in 1..Len(values) : values[i] = x
    THEN (CHOOSE i \in 1..Len(values) :
              values[i] = x /\ \A j \in 1..(i - 1) : values[j] # x) - 1
    ELSE -1

\* methods[i]: undefined outside the array
Method(name) == [k |-> "string", name |-> name]

UndefinedMethod == [k |-> "undefined", name |-> ""]

MethodAt(methods, i) ==
    IF i >= 0 /\ i < Len(methods) THEN Method(methods[i + 1]) ELSE UndefinedMethod

\* line 272: 0 / 0 is NaN
Average(values) ==
    IF Len(values) = 0 \/ \E i \in 1..Len(values) : ~IsFinite(values[i]) THEN NaN
    ELSE Number((Sum([i \in 1..Len(values) |-> values[i].v]) * 1000) \div Len(values))

\* lines 273-277 for n values v of sum S: the sum of (v - S/n)^2 over n is
\* the sum of (n*v - S)^2 over n^3, rounded to thousandths
Variance(values) ==
    IF Len(values) = 0 \/ \E i \in 1..Len(values) : ~IsFinite(values[i]) THEN NaN
    ELSE LET n == Len(values)
             S == Sum([i \in 1..n |-> values[i].v])
             squares == Sum([i \in 1..n |-> (n * values[i].v - S) * (n * values[i].v - S)])
             den == n * n * n * 1000
         IN  Number((2 * squares + den) \div (2 * den))

Extreme(methods, values, x) ==
    [k |-> "object", method |-> MethodAt(methods, ValueIndexOf(values, x)), value |-> x]

analyzeSimilarities(map) ==
    CHOOSE r \in
        {[highest |-> Extreme(Keys(map), values, MathMax(values)),
          lowest |-> Extreme(Keys(map), values, MathMin(values)),
          average |-> Average(values),
          variance |-> Variance(values)] :
            values \in {Values(map)}} : TRUE

(***************************************************************************)
(* 13. Strings of sentence-similarity.js (src/unnamed/part_003).  A value  *)
(* a function of that file returns is not rounded and is held in           *)
(* millionths.                                                             *)
(***************************************************************************)
\* the characters \s matches and trim() strips, among those of the model
WhitespaceChars == {" "}

\* the characters of /[.!?]/
SentenceEnds == {".", "!", "?"}

\* the characters of /\d/
Digits == {"0", "1", "2", "3", "4", "5", "6", "7", "8", "9"}

\* String.prototype.trim
Trim(s) ==
    LET inked == {i \in 1..Len(s) : s[i] \notin WhitespaceChars}
    IN  IF inked = {} THEN <<>>
        ELSE SubSeq(s, CHOOSE i \in inked : \A j \in inked : i <= j,
                       CHOOSE i \in inked : \A j \in inked : i >= j)

\* the elements of a set of integers in increasing order
RECURSIVE SortedSeq(_)
SortedSeq(S) ==
    IF S = {} THEN <<>>
    ELSE CHOOSE r \in {<<m>> \o SortedSeq(S \ {m}) :
                          m \in {x \in S : \A y \in S : x <= y}} : TRUE

\* the non-empty pieces of s.split(separator), in order, for a separator that
\* matches characters of seps: the maximal runs of other characters
RunStarts(s, seps) ==
    {i \in 1..Len(s) : s[i] \notin seps /\ (i = 1 \/ s[i - 1] \in seps)}

RunEnd(s, seps, i) ==
    CHOOSE j \in i..Len(s) :
        /\ \A k \in i..j : s[k] \notin seps
        /\ j = Len(s) \/ s[j + 1] \in seps

Runs(s, seps) ==
    CHOOSE r \in
        {[n \in 1..Len(starts) |-> SubSeq(s, starts[n], RunEnd(s, seps, starts[n]))] :
            starts \in {SortedSeq(RunStarts(s, seps))}} : TRUE

(***************************************************************************)
(* 14. calculateCompletenessScore (part_003 lines 42-79).                  *)
(***************************************************************************)
\* lines 52-53
CompleteEndings ==
    {<<"s_eu_b", "n_i", "d_a">>, <<"h_ae", "x_yo">>, <<"x_i_b", "n_i", "d_a">>,
     <<"d_eu", "r_i", "g_e_ss", "s_eu_b", "n_i", "d_a">>,
     <<"d_eu", "r_i_l", "g_e", "x_yo">>, <<"d_oe_b", "n_i", "d_a">>}

\* line 71
politeExpressions ==
    {<<"g_o", "g_ae_g", "n_i_m">>,
     <<"b_u", "t_a_g", "d_eu", "r_i_b", "n_i", "d_a">>,
     <<"j_oe", "s_o_ng", "h_a_b", "n_i", "d_a">>,
     <<"g_a_m", "s_a", "h_a_b", "n_i", "d_a">>,
     <<"x_a_n", "n_ae">>,
     <<"d_o", "x_wa", "d_eu", "r_i", "g_e_ss", "s_eu_b", "n_i", "d_a">>}

\* lines 45 and 51-54
HasCompleteStructure(text) ==
    LET pieces == Runs(text, SentenceEnds)
        sentences == {n \in 1..Len(pieces) : Len(Trim(pieces[n])) > 0}
    IN  \E n \in sentences : \E ending \in CompleteEndings : Includes(pieces[n], ending)

\* lines 46 and 58-59
WordCount(text) == Len(Runs(text, WhitespaceChars))

\* lines 62-65.  indexOf turns a keyword that is no string into a string
\* ("null", "undefined", "5") that no text of the model holds at an index
\* above 0, so the test stops at keywordIndex > 0.
KeywordInContext(text, kw) ==
    /\ IsString(kw)
    /\ IndexOf(text, kw.s) > 0
    /\ IndexOf(text, kw.s) < Len(text) - Len(kw.s)

\* lines 48-78, in millionths
CompletenessOf(text, kw) ==
    Min2(Micro,
         (IF HasCompleteStructure(text) THEN 200000 ELSE 0)
         + (IF WordCount(text) >= 5 THEN 150000 ELSE 0)
         + (IF WordCount(text) >= 10 THEN 100000 ELSE 0)
         + (IF KeywordInContext(text, kw) THEN 250000 ELSE 0)
         + (IF \E i \in 1..Len(text) : text[i] \in SentenceEnds THEN 100000 ELSE 0)
         + (IF \E expr \in politeExpressions : Includes(text, expr) THEN 150000 ELSE 0)
         + (IF \E i \in 1..Len(text) : text[i] \in Digits THEN 50000 ELSE 0))

\* line 43: !text is true of null, undefined and ""; a number has no trim
calculateCompletenessScore(text, kw) ==
    IF ~Truthy(text) THEN Returned(Number(0))
    ELSE IF ~IsString(text) THEN TypeError
    ELSE IF Len(Trim(text.s)) = 0 THEN Returned(Number(0))
    ELSE Returned(Number(CompletenessOf(text.s, kw)))

(***************************************************************************)
(* 15. calculateLengthPenalty (part_003 lines 17-34).                      *)
(***************************************************************************)
\* num / den to the nearest whole number, halves up, for den > 0
RoundDiv(num, den) == (2 * num + den) \div (2 * den)

\* lines 22-33 with candidateLen < 10 read as candidateLen <= 10
LengthPenaltyRatio_TenIsShort(expectedLen, candidateLen) ==
    IF candidateLen = 0 THEN <<0, 1>>
    ELSE LET lo == Min2(candidateLen, expectedLen)
             hi == Max2(candidateLen, expectedLen)
             shortDivisor == IF candidateLen <= 10 THEN 2 ELSE 1
             ratioDivisor == IF 10 * lo > 3 * hi THEN 1 ELSE 2
         IN  <<lo, hi * ratioDivisor * shortDivisor>>

\* lines 22-33, as the fraction <<numerator, denominator>>: lengthRatio is
\* lo / hi, shortPenalty is 1 / shortDivisor, and lengthPenalty is
\* lengthRatio / ratioDivisor
LengthPenaltyRatio(expectedLen, candidateLen) ==
    IF candidateLen = 0 THEN <<0, 1>>
    ELSE LET lo == Min2(candidateLen, expectedLen)
             hi == Max2(candidateLen, expectedLen)
             shortDivisor == IF candidateLen < 10 THEN 2 ELSE 1
             ratioDivisor == IF 10 * lo > 3 * hi THEN 1 ELSE 2
         IN  <<lo, hi * ratioDivisor * shortDivisor>>

\* lines 22-33, in millionths to the nearest
LengthPenaltyOf(expectedLen, candidateLen) ==
    LET penalty == LengthPenaltyRatio(expectedLen, candidateLen)
    IN  RoundDiv(Micro * penalty[1], penalty[2])

\* trim is read from expectedText, then from candidateText: a value that is
\* no string has no trim method
calculateLengthPenalty(expectedText, candidateText) ==
    IF ~IsString(expectedText) \/ ~IsString(candidateText) THEN TypeError
    ELSE Returned(Number(LengthPenaltyOf(Len(Trim(expectedText.s)),
                                         Len(Trim(candidateText.s)))))

(***************************************************************************)
(* 16. calculateKeywordWeightedSimilarity and the context functions        *)
(* (part_003 lines 88-155).                                                *)
(***************************************************************************)
UpperCaseLetters ==
    <<"A", "B", "C", "D", "E", "F", "G", "H", "I", "J", "K", "L", "M",
      "N", "O", "P", "Q", "R", "S", "T", "U", "V", "W", "X", "Y", "Z">>

LowerCaseLetters ==
    <<"a", "b", "c", "d", "e", "f", "g", "h", "i", "j", "k", "l", "m",
      "n", "o", "p", "q", "r", "s", "t", "u", "v", "w", "x", "y", "z">>

\* String.prototype.toLowerCase: Hangul, digits and blanks have no case
ToLowerCase(s) ==
    [i \in 1..Len(s) |->
        IF \E n \in 1..Len(UpperCaseLetters) : UpperCaseLetters[n] = s[i]
        THEN LowerCaseLetters[CHOOSE n \in 1..Len(UpperCaseLetters) :
                                  UpperCaseLetters[n] = s[i]]
        ELSE s[i]]

\* s.split(/\s+/): the pieces between the maximal runs of whitespace, the
\* empty pieces before a leading run and after a trailing one included
RECURSIVE Split(_)
Split(s) ==
    LET blanks == {i \in 1..Len(s) : s[i] \in WhitespaceChars}
    IN  IF blanks = {} THEN <<s>>
        ELSE LET first == CHOOSE i \in blanks : \A j \in blanks : i <= j
                 last  == CHOOSE j \in first..Len(s) :
                              /\ \A k \in first..j : s[k] \in WhitespaceChars
                              /\ j = Len(s) \/ s[j + 1] \notin WhitespaceChars
             IN  <<SubSeq(s, 1, first - 1)>> \o Split(SubSeq(s, last + 1, Len(s)))

\* words.findIndex(word => word.includes(kw)): 0-based, or -1
FindIndex(words, kw) ==
    LET hits == {n \in 1..Len(words) : Includes(words[n], kw)}
    IN  IF hits = {} THEN -1
        ELSE (CHOOSE n \in hits : \A m \in hits : n <= m) - 1

\* words.join(' ')
RECURSIVE JoinWords(_)
JoinWords(words) ==
    IF Len(words) = 0 THEN <<>>
    ELSE IF Len(words) = 1 THEN words[1]
    ELSE words[1] \o <<" ">> \o JoinWords(Tail(words))

\* line 88
windowSize == 3

\* lines 88-98, for a text and a keyword that are strings
extractKeywordContext(text, kw) ==
    LET words == Split(text)
        keywordIndex == FindIndex(words, kw)
    IN  IF keywordIndex = -1 THEN <<>>
        ELSE LET start == Max2(0, keywordIndex - windowSize)
                 end   == Min2(Len(words), keywordIndex + windowSize + 1)
             IN  JoinWords(SubSeq(words, start + 1, end))

\* the elements of a sequence
Range(seq) == {seq[n] : n \in 1..Len(seq)}

\* lines 106-117: <<intersection.size, union.size>>, <<0, 1>> standing for
\* the 0 of line 107
ContextOverlap(context1, context2) ==
    IF Len(context1) = 0 \/ Len(context2) = 0 THEN <<0, 1>>
    ELSE LET words1 == Range(Split(ToLowerCase(context1)))
             words2 == Range(Split(ToLowerCase(context2)))
         IN  <<Cardinality(words1 \cap words2), Cardinality(words1 \cup words2)>>

\* lines 106-117, in millionths to the nearest
calculateContextSimilarity(context1, context2) ==
    LET overlap == ContextOverlap(context1, context2)
    IN  RoundDiv(Micro * overlap[1], overlap[2])

\* line 129: candidateText.toLowerCase().includes(keyword.toLowerCase())
KeywordIncluded(candidateText, kw) ==
    Includes(ToLowerCase(candidateText), ToLowerCase(kw))

\* lines 133-136: 0 without the STTSimilarity module, in thousandths
KeywordSTTSimilarity(candidateText, kw, module) ==
    IF module # "undefined"
    THEN jaroWinklerSimilarity(Str(kw), Str(candidateText))
    ELSE 0

\* lines 131-141: the early return is taken
KeywordPenalised(candidateText, kw, module) ==
    /\ ~KeywordIncluded(candidateText, kw)
    /\ KeywordSTTSimilarity(candidateText, kw, module) < 700

\* lines 144-154, in millionths to the nearest:
\* min(baseSimilarity * 0.6 + contextSimilarity * 0.3 + keywordBonus, 1.0)
KeywordContextScore(expectedText, candidateText, kw, baseSimilarity) ==
    LET overlap == ContextOverlap(extractKeywordContext(candidateText, kw),
                                  extractKeywordContext(expectedText, kw))
        keywordBonus == IF KeywordIncluded(candidateText, kw) THEN 100000 ELSE 0
    IN  Min2(RoundDiv(6 * baseSimilarity * overlap[2] + 3 * Micro * overlap[1]
                          + 10 * keywordBonus * overlap[2],
                      10 * overlap[2]),
             Micro)

\* lines 127-155 with the contexts of lines 144-145 extracted before the test
\* of line 131
calculateKeywordWeightedSimilarity_ContextFirst(expectedText, candidateText, kw, baseSimilarity, module) ==
    IF ~IsString(candidateText) \/ ~IsString(kw) \/ ~IsString(expectedText)
    THEN TypeError
    ELSE IF KeywordPenalised(candidateText.s, kw.s, module)
         THEN Returned(Number(RoundDiv(3 * baseSimilarity, 10)))
    ELSE Returned(Number(KeywordContextScore(expectedText.s, candidateText.s, kw.s,
                                             baseSimilarity)))

\* lines 127-155; baseSimilarity is a number in millionths.  toLowerCase is
\* read from candidateText and from keyword at line 129, split from
\* expectedText at line 145 only: each throws a TypeError on a value that is
\* no string.
calculateKeywordWeightedSimilarity(expectedText, candidateText, kw, baseSimilarity, module) ==
    IF ~IsString(candidateText) \/ ~IsString(kw) THEN TypeError
    ELSE IF KeywordPenalised(candidateText.s, kw.s, module)
         THEN Returned(Number(RoundDiv(3 * baseSimilarity, 10)))
    ELSE IF ~IsString(expectedText) THEN TypeError
    ELSE Returned(Number(KeywordContextScore(expectedText.s, candidateText.s, kw.s,
                                             baseSimilarity)))

(***************************************************************************)
(* 17. enhancedSTTErrorCheck (part_003 lines 160-225).  The value is held  *)
(* in millionths: a score of calculateEnsemble (hundred-thousandths) is    *)
(* 10 times, and one multiplied by 0.9 is 9 times, that many millionths.   *)
(***************************************************************************)
\* lines 167-186: the patterns used when stt-similarity.js is not loaded
SentenceFallbackPatterns ==
    <<
      <<<<"kk_eu_t", "n_a", "n_eu_n">>,
        <<<<"kk_eu_nh", "n_a", "n_eu_n">>,
          <<"kk_eu_n", "n_a", "n_eu_n">>,
          <<"kk_eu_ng", "n_a", "n_eu_n">>>>>>,
      <<<<"d_o", "x_wa", "d_eu", "r_i", "g_e_ss", "s_eu_b", "n_i", "d_a">>,
        <<<<"b_o", "x_a_n", "d_eu", "r_i", "g_e_ss", "s_eu_b", "n_i", "d_a">>,
          <<"d_o", "x_a_n", "d_eu", "r_i", "g_e_ss", "s_eu_b", "n_i", "d_a">>,
          <<"d_o", "x_wa", "d_eu", "g_i", "g_e_ss", "s_eu_b", "n_i", "d_a">>>>>>,
      <<<<"j_u_n", "b_i">>,
        <<<<"j_eu_n", "b_i">>,
          <<"j_u_n", "b_i", "h_ae">>,
          <<"j_u_n", "b_ae">>>>>>,
      <<<<"s_eo", "r_yu">>,
        <<<<"s_eo", "r_wi">>,
          <<"s_eo_l", "r_yu">>,
          <<"s_yeo", "r_yu">>>>>>,
      <<<<"h_wa_g", "x_i_n">>,
        <<<<"h_wa", "g_i_n">>,
          <<"h_wa_g", "g_i_n">>,
          <<"h_wa_g", "x_i_n", "h_ae">>>>>>,
      <<<<"p_i_l", "x_yo">>,
        <<<<"p_i_ng", "x_yo">>,
          <<"b_i", "r_yo">>,
          <<"p_i_l", "r_yo">>>>>>,
      <<<<"k_eu_l", "r_a", "x_u", "d_eu">>,
        <<<<"k_eu_l", "r_a", "x_u", "d_u">>,
          <<"k_eu_l", "r_a", "x_u", "d_eu", "r_o">>,
          <<"k_eu_l", "r_a", "d_u_s">>>>>>,
      <<<<"x_i_n", "ch_i">>,
        <<<<"x_i_n", "ch_i", "r_o">>,
          <<"x_i_n", "j_i">>,
          <<"x_i_n", "ch_a">>>>>>,
      <<<<"g_o", "g_ae_g", "n_i_m">>,
        <<<<"g_o", "g_ae_g", "n_i_m", "kk_e">>,
          <<"g_o", "g_ae_g", "n_i_b">>,
          <<"g_o", "g_ae_g", "n_i_m", "x_i">>>>>>,
      <<<<"b_eo_n", "g_eo", "r_o", "x_u", "s_i", "g_e_ss", "j_i", "m_a_n">>,
        <<<<"b_eo_n", "g_eo", "r_o", "x_u", "s_yeo_ss", "j_i", "m_a_n">>,
          <<"b_eo_n", "g_eo", "r_o", "s_i", "g_e_ss", "j_i", "m_a_n">>,
          <<"b_eo_n", "g_eo", "r_o", "x_u", "s_i", "g_e_ss", "s_eu_b", "n_i", "d_a", "m_a_n">>>>>>,
      <<<<"j_oe", "s_o_ng", "h_a", "j_i", "m_a_n">>,
        <<<<"j_oe", "s_o_ng", "h_a_b", "n_i", "d_a", "m_a_n">>,
          <<"j_oe", "s_o_ng", "h_a", "s_i", "m_a_n">>,
          <<"j_oe", "s_o_ng", "h_a", "j_i", "m_a_n", "s_eo">>>>>>
    >>

\* lines 160-187: an object is truthy, so the loaded module's lexicon is
\* returned whenever the module is there
getSentenceSTTErrorPatterns(module) ==
    IF module # "undefined" THEN lexicon ELSE SentenceFallbackPatterns

\* candidate.replace(error, correct) with a string pattern: the first
\* occurrence only, the pattern taken literally
ReplaceFirst(text, pattern, replacement) ==
    LET i == IndexOf(text, pattern)
    IN  IF i = -1 THEN text
        ELSE SubSeq(text, 1, i) \o replacement
                 \o SubSeq(text, i + Len(pattern) + 1, Len(text))

\* lines 198-199 and 212-214: 0 without the module; both texts are strings
SentenceEnsemble(expected, candidate, module) ==
    IF module # "undefined"
    THEN calculateEnsemble(Str(expected), Str(candidate), Null).value
    ELSE 0

\* the inner loop (lines 205-219) over the variants of one entry
RECURSIVE CheckVariants(_, _, _, _, _, _, _)
CheckVariants(expected, candidate, correct, errors, k, maxSimilarity, module) ==
    IF k > Len(errors) THEN maxSimilarity
    ELSE CHOOSE r \in
             {CheckVariants(expected, candidate, correct, errors, k + 1, next, module) :
                 next \in {IF Includes(candidate, errors[k])
                           THEN Max2(maxSimilarity,
                                     9 * SentenceEnsemble(
                                             expected,
                                             ReplaceFirst(candidate, errors[k], correct),
                                             module))
                           ELSE maxSimilarity}} : TRUE

\* the outer loop (lines 203-221) over the entries
RECURSIVE CheckEntries(_, _, _, _, _, _)
CheckEntries(expected, candidate, patterns, e, maxSimilarity, module) ==
    IF e > Len(patterns) THEN maxSimilarity
    ELSE CHOOSE r \in
             {CheckEntries(expected, candidate, patterns, e + 1, next, module) :
                 next \in {IF Includes(expected, patterns[e][1])
                           THEN CheckVariants(expected, candidate, patterns[e][1],
                                              patterns[e][2], 1, maxSimilarity, module)
                           ELSE maxSimilarity}} : TRUE

\* lines 201-225, after maxSimilarity got its first value: includes is read
\* from expected at the first entry, and from candidate at the first entry
\* whose canonical form expected holds; a value that is no string has none
CheckPatterns(expected, candidate, patterns, first, module) ==
    IF Len(patterns) = 0 THEN Returned(Number(first))
    ELSE IF ~IsString(expected) THEN TypeError
    ELSE IF ~IsString(candidate)
         THEN (IF \E e \in 1..Len(patterns) : Includes(expected.s, patterns[e][1])
               THEN TypeError
               ELSE Returned(Number(first)))
    ELSE Returned(Number(CheckEntries(expected.s, candidate.s, patterns, 1, first,
                                      module)))

\* lines 195-225 without the loop over the patterns (lines 202-222)
enhancedSTTErrorCheck_NoPatterns(expected, candidate, module) ==
    IF module # "undefined"
    THEN (LET first == calculateEnsemble(expected, candidate, Null)
          IN  IF first.kind = "throw" THEN first
              ELSE Returned(Number(10 * first.value)))
    ELSE Returned(Number(0))

\* lines 195-225: with the module, calculateEnsemble gives the first value, or
\* throws
enhancedSTTErrorCheck(expected, candidate, module) ==
    CHOOSE r \in
        {IF first.kind = "throw" THEN first
         ELSE CheckPatterns(expected, candidate, getSentenceSTTErrorPatterns(module),
                            10 * first.value, module) :
            first \in {IF module # "undefined"
                       THEN calculateEnsemble(expected, candidate, Null)
                       ELSE Returned(0)}} : TRUE

(***************************************************************************)
(* 18. calculateSentenceEnhancedSimilarity (part_003 lines 236-290).       *)
(* calculator is typeof SimilarityCalculator, module is typeof             *)
(* STTSimilarity.  Every number is in millionths, to the nearest at each   *)
(* step.                                                                   *)
(***************************************************************************)
\* lines 238-241, in millionths
BaseSimilarity(expectedEmbedding, candidateEmbedding, calculator) ==
    IF calculator # "undefined"
    THEN fastCosineSimilarity(expectedEmbedding, candidateEmbedding)
    ELSE Returned(Number(500000))

\* lines 256-268: the weights, in hundredths
WeightedScore(keywordWeighted, baseSimilarity, sttCorrected, completeness) ==
    RoundDiv(40 * keywordWeighted + 25 * baseSimilarity + 20 * sttCorrected
                 + 15 * completeness,
             100)

\* line 271 without the length penalty
FinalScore_NoPenalty(weightedScore, expectedLen, candidateLen) ==
    Min2(weightedScore, Micro)

\* line 271: Math.min(weightedScore * lengthPenalty, 1.0), the penalty taken
\* as the fraction it is
FinalScore(weightedScore, expectedLen, candidateLen) ==
    LET penalty == LengthPenaltyRatio(expectedLen, candidateLen)
    IN  Min2(RoundDiv(weightedScore * penalty[1], penalty[2]), Micro)

\* line 287: candidateLength / expectedLength
LengthRatio(expectedLen, candidateLen) ==
    IF expectedLen = 0
    THEN (IF candidateLen = 0 THEN NaN ELSE PlusInfinity)
    ELSE Number(RoundDiv(Micro * candidateLen, expectedLen))

\* lines 273-289, for texts and a keyword that are strings
SentenceResult(expectedText, candidateText, kw, baseSimilarity, keywordWeighted, sttCorrected, completeness) ==
    LET expectedLen  == Len(Trim(expectedText))
        candidateLen == Len(Trim(candidateText))
    IN  [kind |-> "return",
         finalScore |->
             Number(FinalScore(WeightedScore(keywordWeighted, baseSimilarity,
                                             sttCorrected, completeness),
                               expectedLen, candidateLen)),
         components |->
             [baseSimilarity  |-> Number(baseSimilarity),
              keywordWeighted |-> Number(keywordWeighted),
              sttCorrected    |-> Number(sttCorrected),
              completeness    |-> Number(completeness),
              lengthPenalty   |-> Number(LengthPenaltyOf(expectedLen, candidateLen))],
         analysis |->
             [keywordIncluded |-> KeywordIncluded(candidateText, kw),
              candidateLength |-> candidateLen,
              expectedLength  |-> expectedLen,
              lengthRatio     |-> LengthRatio(expectedLen, candidateLen),
              wordCount       |-> WordCount(candidateText)]]

\* lines 236-290: the five steps in the order of the code, the first that
\* throws ending the call
calculateSentenceEnhancedSimilarity(expectedEmbedding, candidateEmbedding, expectedText, candidateText, kw, calculator, module) ==
    LET base == BaseSimilarity(expectedEmbedding, candidateEmbedding, calculator)
    IN  IF base.kind = "throw" THEN base
        ELSE IF calculateLengthPenalty(expectedText, candidateText).kind = "throw"
             THEN TypeError
        ELSE IF calculateCompletenessScore(candidateText, kw).kind = "throw"
             THEN TypeError
        ELSE IF calculateKeywordWeightedSimilarity(expectedText, candidateText, kw,
                                                   base.value.v, module).kind = "throw"
             THEN TypeError
        ELSE IF enhancedSTTErrorCheck(expectedText, candidateText, module).kind = "throw"
             THEN TypeError
        ELSE CHOOSE r \in
                 {SentenceResult(expectedText.s, candidateText.s, kw.s, base.value.v,
                                 keywordWeighted, sttCorrected, completeness) :
                     keywordWeighted \in
                         {calculateKeywordWeightedSimilarity(
                              expectedText, candidateText, kw, base.value.v,
                              module).value.v},
                     sttCorrected \in
                         {enhancedSTTErrorCheck(expectedText, candidateText,
                                                module).value.v},
                     completeness \in
                         {calculateCompletenessScore(candidateText, kw).value.v}} : TRUE

(***************************************************************************)
(* Arguments drawn by the specifications of the text functions.            *)
(***************************************************************************)
\* two compatibility jamo the confusion table relates, and a syllable it does not know
Alphabet == {"jamo_p", "jamo_k", "g_a"}

\* the texts of the specification's scenarios: peu-ro-seu-ke-il-reo,
\* keu-ro-seu-ke-il-reo and ma-tin
Proscaler == <<"p_eu", "r_o", "s_eu", "k_e", "x_i_l", "r_eo">>

Croscaler == <<"k_eu", "r_o", "s_eu", "k_e", "x_i_l", "r_eo">>

Martin == <<"m_a", "t_i_n">>

\* values that are not strings
NonStrings == {Null, Undefined, NumberFive}

\* bieup lists mieum in the confusion table, mieum has no entry of its own
OneWayTexts == {<<"jamo_b">>, <<"jamo_m">>, <<"jamo_m", "g_a">>}

StringTexts ==
    {Str(s) : s \in SeqsUpTo(Alphabet, MaxLen) \cup {Proscaler, Croscaler, Martin}
                        \cup OneWayTexts}
        \cup NonStrings

\* pieces the corrector's texts are put together from: ga, hwa-gin (a variant
\* of hwag-in), hwag-in, hae, keu-ro (a variant of peu-ro), peu-ro,
\* seu-ke-il-reo, reul
Tokens ==
    { <<"g_a">>, <<"h_wa", "g_i_n">>, <<"h_wa_g", "x_i_n">>, <<"h_ae">>,
      <<"k_eu", "r_o">>, <<"p_eu", "r_o">>, <<"s_eu", "k_e", "x_i_l", "r_eo">>,
      <<"r_eu_l">> }

RECURSIVE TokenTexts(_)
TokenTexts(n) ==
    IF n = 0 THEN {<<>>}
    ELSE TokenTexts(n - 1) \cup {s \o t : s \in TokenTexts(n - 1), t \in Tokens}

\* ga-peu-ro-keu-ro: three pieces, a canonical form followed by a variant of it
GaProKro == <<"g_a", "p_eu", "r_o", "k_eu", "r_o">>

CorrectorTexts == {Str(s) : s \in TokenTexts(MaxTokens) \cup {GaProKro}} \cup NonStrings

\* targetKeyword: omitted (null), peu-ro, hwag-in, ga
Keywords == {Null, Str(<<"p_eu", "r_o">>), Str(<<"h_wa_g", "x_i_n">>), Str(<<"g_a">>)}

\* the weights argument of calculateSTTSimilarity: omitted, or overriding
WeightChoices ==
    { NoWeights,
      [jaroWinkler |-> 10, levenshtein |-> 0, phonetic |-> 0],
      [phonetic |-> 5] }

(***************************************************************************)
(* Arguments drawn by the specifications of the vector functions.          *)
(***************************************************************************)
\* longest vector drawn
MaxDim == 2

\* the components of the drawn vectors, in halves: -1, 0, 0.5 and 1
Components == {-2, 0, 1, 2}

Vectors == SeqsUpTo(Components, MaxDim)

\* options.weights: omitted, or an array of weights -1 and 1 of any length
\* from 1 to the longest vector
WeightArrays ==
    {NoArray} \cup {Array(w) : w \in UNION {SeqsOfLen({-1, 1}, n) : n \in 1..MaxDim}}

\* options.ensembleWeights: omitted, null, complete, or without manhattan
EnsembleWeightChoices ==
    {NoObject, NullObject,
     Object([cosine |-> 50, euclidean |-> 30, manhattan |-> 20]),
     Object([cosine |-> 50, euclidean |-> 50])}

\* options.jaccardThreshold: omitted, 0 or 1.0
ThresholdChoices == {NoThreshold, Threshold(0), Threshold(Scale)}

OptionChoices ==
    {Options(w, e, t) : w \in WeightArrays, e \in EnsembleWeightChoices,
                        t \in ThresholdChoices}

\* most entries of a metric map drawn for analyzeSimilarities
MaxMetrics == 3

MetricNames == {"cosine", "euclidean", "manhattan"}

\* the values of the drawn maps, in thousandths
MetricValues == {200, 500, 900}

MetricMaps ==
    {m \in SeqsUpTo({Entry(key, Number(v)) : key \in MetricNames, v \in MetricValues},
                    MaxMetrics) :
        \A i, j \in 1..Len(m) : i # j => m[i].key # m[j].key}

\* the text pairs drawn with the vectors
HybridTexts == {Str(Proscaler), Str(Croscaler)}

(***************************************************************************)
(* Arguments drawn by the specifications of the sentence functions.        *)
(***************************************************************************)
\* most words of a sentence drawn for calculateCompletenessScore
MaxWords == 5

\* the words the drawn sentences are made of: hwag-in, ga, hae-yo and 1
SentenceWords ==
    {<<"h_wa_g", "x_i_n">>, <<"g_a">>, <<"h_ae", "x_yo">>, <<"1">>}

\* a sentence of twelve words that earns every point of the score
FullSentence ==
    JoinWords(<<<<"g_o", "g_ae_g", "n_i_m">>, <<"g_a">>, <<"h_wa_g", "x_i_n">>, <<"1">>,
                <<"g_a">>, <<"g_a">>, <<"g_a">>, <<"g_a">>, <<"g_a">>, <<"g_a">>,
                <<"g_a">>, <<"h_ae", "x_yo">>>>) \o <<".">>

\* the sentences: up to MaxWords words joined by blanks, bare, after a blank
\* or before a full stop; the full sentence; a blank; and values that are no
\* strings
SentenceTexts ==
    {Str(pre \o JoinWords(words) \o post) :
        words \in SeqsUpTo(SentenceWords, MaxWords),
        pre \in {<<>>, <<" ">>}, post \in {<<>>, <<".">>}}
    \cup {Str(FullSentence), Null, NumberFive}

SentenceKeywords == {Str(<<"h_wa_g", "x_i_n">>), Str(<<"g_a">>), Null}

(***************************************************************************)
(* Arguments drawn by the specifications of calculateLengthPenalty and     *)
(* calculateKeywordWeightedSimilarity.                                     *)
(***************************************************************************)
\* most characters between the blanks of a text drawn for calculateLengthPenalty
MaxBody == 12

\* n times the syllable ga
RECURSIVE Syllables(_)
Syllables(n) == IF n = 0 THEN <<>> ELSE <<"g_a">> \o Syllables(n - 1)

\* the texts: up to MaxBody syllables, bare or between blanks, or with a blank
\* after the first; and values that are no strings
LengthTexts ==
    {Str(pre \o Syllables(n) \o post) :
        n \in 0..MaxBody, pre \in {<<>>, <<" ">>}, post \in {<<>>, <<" ", " ">>}}
    \cup {Str(<<"g_a", " ">> \o Syllables(n)) : n \in 1..MaxBody}
    \cup {Null, NumberFive}

\* most words of a candidate drawn for calculateKeywordWeightedSimilarity
MaxContextWords == 2

\* the words: hwag-in, ga, Ab, ab, keu-ro-seu-ke-il-reo
ContextWords ==
    {<<"h_wa_g", "x_i_n">>, <<"g_a">>, <<"A", "b">>, <<"a", "b">>, Croscaler}

\* a sentence of nine words with the keyword hwag-in as its fifth
LongSentence ==
    JoinWords(<<<<"1">>, <<"g_a">>, <<"a", "b">>, <<"g_a">>, <<"h_wa_g", "x_i_n">>,
                <<"g_a">>, <<"A", "b">>, <<"h_ae", "x_yo">>, <<"2">>>>)

CandidateTexts ==
    {Str(pre \o JoinWords(words)) :
        words \in SeqsUpTo(ContextWords, MaxContextWords), pre \in {<<>>, <<" ">>}}
    \cup {Str(LongSentence), Null}

ExpectedTexts ==
    {Str(LongSentence), Str(JoinWords(<<Proscaler, <<"a", "b">>, <<"g_a">>>>)), Null}

\* keyword: hwag-in, ab, peu-ro-seu-ke-il-reo, the empty string, null
ContextKeywords ==
    {Str(<<"h_wa_g", "x_i_n">>), Str(<<"a", "b">>), Str(Proscaler), Str(<<>>), Null}

\* baseSimilarity, in millionths: -1, 0, 0.5 and 1
BaseSimilarities == {-1000000, 0, 500000, 1000000}

\* the embeddings drawn for calculateSentenceEnhancedSimilarity, in halves
SentenceEmbeddings == {<<>>, <<2>>, <<2, 0>>, <<0, 2>>, <<-2, 2>>, <<2, 2>>}

\* expected texts: hwag-in hae-yo., ga, the empty string, null
SentenceExpectedTexts ==
    {Str(<<"h_wa_g", "x_i_n", " ", "h_ae", "x_yo", ".">>), Str(<<"g_a">>), Str(<<>>), Null}

\* candidate texts: empty, one blank, two blanks, ga, hwa-gin hae-yo (a
\* variant of hwag-in), hwag-in hae-yo., ga hwag-in ga hae-yo. (ten
\* characters), null
SentenceCandidateTexts ==
    {Str(<<>>), Str(<<" ">>), Str(<<" ", " ">>), Str(<<"g_a">>),
     Str(<<"h_wa", "g_i_n", " ", "h_ae", "x_yo">>),
     Str(<<"h_wa_g", "x_i_n", " ", "h_ae", "x_yo", ".">>),
     Str(<<"g_a", " ", "h_wa_g", "x_i_n", " ", "g_a", " ", "h_ae", "x_yo", ".">>), Null}

Idle ==
    /\ pc = "ready"
    /\ op = "none"
    /\ result = [kind |-> "none"]
    /\ lexicon = KOREAN_STT_ERROR_PATTERNS
    /\ calls = 0

NoTexts == text1 = Null /\ text2 = Null /\ keyword = Null

NoVectors == vec1 = <<>> /\ vec2 = <<>> /\ options = NoOptions

NoMap == similarities = <<>>

\* a call that drops the entry of the lexicon it has just walked
Call_ConsumesLexicon(name, r) ==
    /\ pc = "ready"
    /\ pc' = "done"
    /\ op' = name
    /\ result' = r
    /\ calls' = calls + 1
    /\ lexicon' = Tail(lexicon)
    /\ UNCHANGED <<text1, text2, keyword, vec1, vec2, options, similarities, sttModule,
                   simModule>>

\* a call: the function named `name` ran to its end and produced `r`; none of
\* the functions assigns to its arguments or to a module-level binding
Call(name, r) ==
    /\ pc = "ready"
    /\ pc' = "done"
    /\ op' = name
    /\ result' = r
    /\ calls' = calls + 1
    /\ UNCHANGED <<text1, text2, keyword, vec1, vec2, options, similarities, sttModule,
                   simModule, lexicon>>


(***************************************************************************)
(* SpecString: one call of one of the three string metrics.                *)
(***************************************************************************)
InitString ==
    /\ Idle /\ NoVectors /\ NoMap
    /\ sttModule = "object"
    /\ simModule = "object"
    /\ text1 \in StringTexts
    /\ text2 \in StringTexts
    /\ keyword = Null

CallJaroWinkler ==
    Call("jaroWinklerSimilarity", Returned(jaroWinklerSimilarity(text1, text2)))

CallLevenshtein ==
    Call("levenshteinSimilarity", Returned(levenshteinSimilarity(text1, text2)))

CallPhonetic ==
    Call("koreanPhoneticSimilarity", Returned(koreanPhoneticSimilarity(text1, text2)))

NextString == CallJaroWinkler \/ CallLevenshtein \/ CallPhonetic

SpecString == InitString /\ [][NextString]_vars

(***************************************************************************)
(* SpecCorrect: one call of correctSTTErrorsByPattern(text1, keyword).     *)
(***************************************************************************)
InitCorrect ==
    /\ Idle /\ NoVectors /\ NoMap
    /\ sttModule = "object"
    /\ simModule = "object"
    /\ text1 \in CorrectorTexts
    /\ text2 = Null
    /\ keyword \in Keywords

CallCorrect ==
    Call("correctSTTErrorsByPattern", correctSTTErrorsByPattern(text1, keyword))

NextCorrect == CallCorrect

SpecCorrect == InitCorrect /\ [][NextCorrect]_vars

(***************************************************************************)
(* SpecEnhanced: one call of calculateSTTSimilarity,                       *)
(* calculateEnhancedSTTSimilarity or calculateEnsemble.                    *)
(***************************************************************************)
InitEnhanced ==
    /\ Idle /\ NoVectors /\ NoMap
    /\ sttModule = "object"
    /\ simModule = "object"
    /\ text1 \in CorrectorTexts
    /\ text2 \in CorrectorTexts
    /\ keyword \in Keywords

CallSTTSimilarity ==
    \E weights \in WeightChoices :
        Call("calculateSTTSimilarity",
             [kind |-> "return", weights |-> weights,
              value |-> calculateSTTSimilarity(text1, text2, weights)])

CallEnhanced ==
    Call("calculateEnhancedSTTSimilarity",
         calculateEnhancedSTTSimilarity(text1, text2, keyword))

CallEnsemble ==
    Call("calculateEnsemble", calculateEnsemble(text1, text2, keyword))

NextEnhanced == CallSTTSimilarity \/ CallEnhanced \/ CallEnsemble

SpecEnhanced == InitEnhanced /\ [][NextEnhanced]_vars

(***************************************************************************)
(* SpecVector: one call of one function of src/similarity.js that takes    *)
(* two vectors; the weights and the threshold are those of the options.    *)
(* calculateSTTEnhancedSimilarities is called with null texts here, and    *)
(* with texts in SpecHybrid.                                               *)
(***************************************************************************)
InitVector ==
    /\ Idle /\ NoTexts /\ NoMap
    /\ sttModule = "object"
    /\ simModule = "object"
    /\ vec1 \in Vectors
    /\ vec2 \in Vectors
    /\ options \in OptionChoices

CallCosine == Call("cosineSimilarity", cosineSimilarity(vec1, vec2))

CallFastCosine == Call("fastCosineSimilarity", fastCosineSimilarity(vec1, vec2))

CallEuclidean == Call("euclideanSimilarity", euclideanSimilarity(vec1, vec2))

CallManhattan == Call("manhattanSimilarity", manhattanSimilarity(vec1, vec2))

CallWeightedCosine ==
    Call("weightedCosineSimilarity", weightedCosineSimilarity(vec1, vec2, options.weights))

CallPearson == Call("pearsonCorrelation", pearsonCorrelation(vec1, vec2))

CallEnsembleSimilarity ==
    Call("ensembleSimilarity", ensembleSimilarity(vec1, vec2, options.ensembleWeights))

CallJaccard ==
    Call("jaccardSimilarity", jaccardSimilarity(vec1, vec2, options.jaccardThreshold))

CallAllSimilarities ==
    Call("calculateAllSimilarities", calculateAllSimilarities(vec1, vec2, options))

\* with the texts and the module of the state (in SpecVector: no texts)
CallSTTEnhancedSimilarities ==
    Call("calculateSTTEnhancedSimilarities",
         calculateSTTEnhancedSimilarities(vec1, vec2, text1, text2, options, sttModule))

NextVector ==
    \/ CallCosine \/ CallFastCosine \/ CallEuclidean \/ CallManhattan
    \/ CallWeightedCosine \/ CallPearson \/ CallEnsembleSimilarity \/ CallJaccard
    \/ CallAllSimilarities \/ CallSTTEnhancedSimilarities

SpecVector == InitVector /\ [][NextVector]_vars

(***************************************************************************)
(* SpecHybrid: one call of calculateSTTEnhancedSimilarities, with the      *)
(* STTSimilarity module loaded or not.                                     *)
(***************************************************************************)
InitHybrid ==
    /\ Idle /\ NoMap
    /\ sttModule \in {"object", "undefined"}
    /\ simModule = "object"
    /\ vec1 \in Vectors
    /\ vec2 \in Vectors
    /\ options \in OptionChoices
    /\ text1 = Str(Proscaler)
    /\ text2 \in HybridTexts
    /\ keyword = Null

NextHybrid == CallSTTEnhancedSimilarities

SpecHybrid == InitHybrid /\ [][NextHybrid]_vars

(***************************************************************************)
(* SpecAnalyze: one call of analyzeSimilarities.                           *)
(***************************************************************************)
InitAnalyze ==
    /\ Idle /\ NoTexts /\ NoVectors
    /\ sttModule = "object"
    /\ simModule = "object"
    /\ similarities \in MetricMaps

CallAnalyze == Call("analyzeSimilarities", Returned(analyzeSimilarities(similarities)))

NextAnalyze == CallAnalyze

SpecAnalyze == InitAnalyze /\ [][NextAnalyze]_vars

(***************************************************************************)
(* SpecCompleteness: one call of calculateCompletenessScore(text1, keyword). *)
(***************************************************************************)
InitCompleteness ==
    /\ Idle /\ NoVectors /\ NoMap
    /\ sttModule = "object"
    /\ simModule = "object"
    /\ text1 \in SentenceTexts
    /\ text2 = Null
    /\ keyword \in SentenceKeywords

CallCompleteness ==
    Call("calculateCompletenessScore", calculateCompletenessScore(text1, keyword))

NextCompleteness == CallCompleteness

SpecCompleteness == InitCompleteness /\ [][NextCompleteness]_vars

(***************************************************************************)
(* SpecLength: one call of calculateLengthPenalty(text1, text2).           *)
(***************************************************************************)
InitLength ==
    /\ Idle /\ NoVectors /\ NoMap
    /\ sttModule = "object"
    /\ simModule = "object"
    /\ text1 \in LengthTexts
    /\ text2 \in LengthTexts
    /\ keyword = Null

CallLengthPenalty ==
    Call("calculateLengthPenalty", calculateLengthPenalty(text1, text2))

NextLength == CallLengthPenalty

SpecLength == InitLength /\ [][NextLength]_vars

(***************************************************************************)
(* SpecKeyword: one call of calculateKeywordWeightedSimilarity(text1,      *)
(* text2, keyword, baseSimilarity), with the STTSimilarity module loaded   *)
(* or not; the result records the baseSimilarity the call was made with.   *)
(***************************************************************************)
InitKeyword ==
    /\ Idle /\ NoVectors /\ NoMap
    /\ sttModule \in {"object", "undefined"}
    /\ simModule = "object"
    /\ text1 \in ExpectedTexts
    /\ text2 \in CandidateTexts
    /\ keyword \in ContextKeywords

WithBase(r, baseSimilarity) ==
    IF r.kind = "return"
    THEN [kind |-> "return", value |-> r.value, baseSimilarity |-> baseSimilarity]
    ELSE [kind |-> "throw", error |-> r.error, baseSimilarity |-> baseSimilarity]

CallKeywordWeighted ==
    \E baseSimilarity \in BaseSimilarities :
        Call("calculateKeywordWeightedSimilarity",
             WithBase(calculateKeywordWeightedSimilarity(text1, text2, keyword,
                                                         baseSimilarity, sttModule),
                      baseSimilarity))

NextKeyword == CallKeywordWeighted

SpecKeyword == InitKeyword /\ [][NextKeyword]_vars

(***************************************************************************)
(* SpecSentence: one call of calculateSentenceEnhancedSimilarity(vec1,     *)
(* vec2, text1, text2, keyword), with each of the two other modules loaded *)
(* or not.                                                                 *)
(***************************************************************************)
InitSentence ==
    /\ Idle /\ NoMap
    /\ sttModule \in {"object", "undefined"}
    /\ simModule \in {"object", "undefined"}
    /\ vec1 \in SentenceEmbeddings
    /\ vec2 \in SentenceEmbeddings
    /\ options = NoOptions
    /\ text1 \in SentenceExpectedTexts
    /\ text2 \in SentenceCandidateTexts
    /\ keyword \in SentenceKeywords

CallSentenceEnhanced ==
    Call("calculateSentenceEnhancedSimilarity",
         calculateSentenceEnhancedSimilarity(vec1, vec2, text1, text2, keyword,
                                             simModule, sttModule))

NextSentence == CallSentenceEnhanced

SpecSentence == InitSentence /\ [][NextSentence]_vars

(***************************************************************************)
(* SpecReentrant: a client that makes up to MaxCalls calls, one after the  *)
(* other, of any of the functions, on the same arguments and the same      *)
(* loaded modules.                                                         *)
(***************************************************************************)
\* most calls one client makes
MaxCalls == 3

ReentrantTexts == {Str(Croscaler), Str(<<"h_wa", "g_i_n">>)}

ReentrantVectors == {<<2, 0>>, <<1, 2>>}

ReentrantOptions ==
    {NoOptions, Options(Array(<<1, -1>>), Object([cosine |-> 50, euclidean |-> 50]),
                        Threshold(0))}

ReentrantMaps ==
    {<<Entry("cosine", Number(900)), Entry("euclidean", Number(900))>>,
     <<Entry("manhattan", Number(200))>>}

InitReentrant ==
    /\ Idle
    /\ sttModule \in {"object", "undefined"}
    /\ simModule = "object"
    /\ text1 \in ReentrantTexts
    /\ text2 = Str(Proscaler)
    /\ keyword \in {Null, Str(<<"p_eu", "r_o">>)}
    /\ vec1 \in ReentrantVectors
    /\ vec2 \in ReentrantVectors
    /\ options \in ReentrantOptions
    /\ similarities \in ReentrantMaps

\* the client takes the value returned and goes on to its next call
Again ==
    /\ pc = "done"
    /\ calls < MaxCalls
    /\ pc' = "ready"
    /\ UNCHANGED <<op, text1, text2, keyword, vec1, vec2, options, similarities,
                   sttModule, simModule, lexicon, calls, result>>

NextReentrant ==
    \/ CallJaroWinkler \/ CallLevenshtein \/ CallPhonetic
    \/ CallCorrect
    \/ CallSTTSimilarity \/ CallEnhanced \/ CallEnsemble
    \/ CallCosine \/ CallFastCosine \/ CallEuclidean \/ CallManhattan
    \/ CallWeightedCosine \/ CallPearson \/ CallEnsembleSimilarity \/ CallJaccard
    \/ CallAllSimilarities \/ CallSTTEnhancedSimilarities
    \/ CallAnalyze
    \/ CallCompleteness \/ CallLengthPenalty \/ CallKeywordWeighted
    \/ CallSentenceEnhanced
    \/ Again

SpecReentrant == InitReentrant /\ [][NextReentrant]_vars

(***************************************************************************)
(* SpecCheck: one call of enhancedSTTErrorCheck, with stt-similarity.js    *)
(* loaded or not.  The expected texts hold hwag-in, peu-ro, both or        *)
(* neither; the candidates are the corrector's texts.                      *)
(***************************************************************************)
CheckExpectedTexts ==
    {Str(<<>>), Str(<<"g_a">>), Str(<<"h_wa_g", "x_i_n">>),
     Str(<<"h_wa_g", "x_i_n", "h_ae">>),
     Str(<<"p_eu", "r_o", "h_wa_g", "x_i_n">>)}

InitCheck ==
    /\ Idle /\ NoVectors /\ NoMap
    /\ sttModule \in {"object", "undefined"}
    /\ simModule = "object"
    /\ text1 \in CheckExpectedTexts
    /\ text2 \in {t \in CorrectorTexts : IsString(t)}
    /\ keyword = Null

CallErrorCheck ==
    Call("enhancedSTTErrorCheck", enhancedSTTErrorCheck(text1, text2, sttModule))

NextCheck == CallErrorCheck

SpecCheck == InitCheck /\ [][NextCheck]_vars

(***************************************************************************)
(* Claims.                                                                 *)
(***************************************************************************)
\* C1: analyzeSimilarities called with an empty metric map returns a summary
\* whose four fields highest, lowest, average and variance are all undefined.
C1_EmptyMapAllAbsent ==
    (pc = "done" /\ op = "analyzeSimilarities" /\ Len(similarities) = 0)
        => /\ result.value.highest.k = "undefined"
           /\ result.value.lowest.k = "undefined"
           /\ result.value.average.k = "undefined"
           /\ result.value.variance.k = "undefined"

\* the keys a call of calculateAllSimilarities that throws nowhere returns
SuccessfulKeys(opts) ==
    {"cosine", "euclidean", "manhattan", "pearson", "jaccard", "ensemble"}
    \cup (IF opts.weights.t = "array" THEN {"weighted_cosine"} ELSE {})

\* a step inside the try block of calculateAllSimilarities throws
ThrowsInside(a, b, opts) ==
    \E i \in 1..Len(Assignments(a, b, opts)) :
        Assignments(a, b, opts)[i].r.kind = "throw"

\* C2: whenever a step inside calculateAllSimilarities throws (for vectors of
\* equal length), the returned map holds every key a successful call with the
\* same options holds, each with the value 0.
C2_WholeBatchZero ==
    (/\ pc = "done" /\ op = "calculateAllSimilarities"
     /\ Len(vec1) = Len(vec2)
     /\ ThrowsInside(vec1, vec2, options))
        => /\ result.kind = "return"
           /\ {result.value[i].key : i \in 1..Len(result.value)} = SuccessfulKeys(options)
           /\ \A i \in 1..Len(result.value) : result.value[i].value = Number(0)

\* C3: weightedCosineSimilarity and calculateAllSimilarities, called with
\* vectors of equal length and a weights array of another length, both end by
\* throwing the weight-length error.
C3_WeightLengthRaised ==
    (/\ pc = "done"
     /\ op \in {"weightedCosineSimilarity", "calculateAllSimilarities"}
     /\ Len(vec1) = Len(vec2)
     /\ options.weights.t = "array"
     /\ Len(options.weights.v) # Len(vec1))
        => result = WeightLengthError

\* C4: every value of a map returned by calculateAllSimilarities or
\* calculateSTTEnhancedSimilarities is a finite number, whatever the options.
C4_EveryValueFinite ==
    (/\ pc = "done"
     /\ op \in {"calculateAllSimilarities", "calculateSTTEnhancedSimilarities"}
     /\ result.kind = "return")
        => \A i \in 1..Len(result.value) : IsFinite(result.value[i].value)

StringMetricOps ==
    {"jaroWinklerSimilarity", "levenshteinSimilarity", "koreanPhoneticSimilarity"}

\* C5, as the claim states it: for every string s, the empty string included,
\* each of the three string metrics gives metric(s, s) = 1.
C5_IdentityEveryString ==
    (pc = "done" /\ op \in StringMetricOps /\ IsString(text1) /\ text1 = text2)
        => result.value = 1000

\* C5, amended: for every non-empty string s, each of the three string metrics
\* gives metric(s, s) = 1.
C5_IdentityNonEmptyString ==
    (pc = "done" /\ op \in StringMetricOps /\ IsString(text1) /\ text1 = text2
        /\ Len(text1.s) > 0)
        => result.value = 1000

\* a one-character string compared with itself by Jaro-Winkler, whose match
\* window would be negative had the identity test not answered first
C5_Witness ==
    /\ pc = "done" /\ op = "jaroWinklerSimilarity"
    /\ IsString(text1) /\ text1 = text2 /\ Len(text1.s) = 1
    /\ result.value = 1000

\* the scores of the configurations calculateEnhancedSTTSimilarity has at hand,
\* each with its penalty, in hundred-thousandths
PenalisedConfigurations(s1, s2, targetKeyword) ==
    LET correction1 == correctSTTErrorsByPattern(s1, targetKeyword)
        correction2 == correctSTTErrorsByPattern(s2, targetKeyword)
    IN  {calculateSTTSimilarity(s1, s2, NoWeights).weighted * 100}
        \cup (IF correction1.hasCorrections
              THEN {calculateSTTSimilarity(correction1.correctedText, s2, NoWeights).weighted * 95}
              ELSE {})
        \cup (IF correction2.hasCorrections
              THEN {calculateSTTSimilarity(s1, correction2.correctedText, NoWeights).weighted * 95}
              ELSE {})
        \cup (IF correction1.hasCorrections /\ correction2.hasCorrections
              THEN {calculateSTTSimilarity(correction1.correctedText,
                                           correction2.correctedText, NoWeights).weighted * 90}
              ELSE {})

SetMax(S) == CHOOSE x \in S : \A y \in S : y <= x

\* C6: the enhanced score of calculateEnhancedSTTSimilarity is the maximum of
\* the penalised scores of the available configurations, and so it is never
\* lower than originalSimilarity.
C6_EnhancedIsMaximum ==
    (pc = "done" /\ op = "calculateEnhancedSTTSimilarity" /\ result.kind = "return")
        => /\ result.enhanced = SetMax(PenalisedConfigurations(text1, text2, keyword))
           /\ result.enhanced >= result.originalSimilarity * 100

\* C7: correctSTTErrorsByPattern does not chain corrections: every variant it
\* replaces, and records, occurs as a substring of the original input text.
C7_NoChaining ==
    (pc = "done" /\ op = "correctSTTErrorsByPattern" /\ result.kind = "return")
        => \A k \in 1..Len(result.corrections) :
               Includes(text1.s, result.corrections[k].original)

\* C8: for the texts peu-ro-seu-ke-il-reo and keu-ro-seu-ke-il-reo the phonetic
\* similarity is above 0 and strictly above the Levenshtein similarity.
C8_PhoneticExceedsLevenshtein ==
    (pc = "done" /\ op = "koreanPhoneticSimilarity"
        /\ text1 = Str(Proscaler) /\ text2 = Str(Croscaler))
        => /\ result.value > 0
           /\ result.value > levenshteinSimilarity(text1, text2)

\* a text argument that is null, undefined, not a string, or the empty string
DegenerateText(x) == ~IsString(x) \/ Len(x.s) = 0

\* the score a result of the three composite functions carries, in hundred-thousandths
ScoreOf(name, r) ==
    IF name = "calculateSTTSimilarity" THEN r.value.weighted * 100
    ELSE IF name = "calculateEnhancedSTTSimilarity" THEN r.enhanced
    ELSE r.value

\* C9: calculateSTTSimilarity, calculateEnhancedSTTSimilarity and
\* calculateEnsemble, given a text that is null, undefined, not a string or
\* empty, return the fallback score 0 and never throw.
C9_DegenerateTextNeverThrows ==
    (pc = "done" /\ (DegenerateText(text1) \/ DegenerateText(text2)))
        => /\ result.kind = "return"
           /\ ScoreOf(op, result) = 0

\* C10: jaroWinklerSimilarity is symmetric: the value returned for (a, b) is
\* the value the function gives for (b, a).
C10_JaroWinklerSymmetric ==
    (pc = "done" /\ op = "jaroWinklerSimilarity")
        => result.value = jaroWinklerSimilarity(text2, text1)

\* two strings of different length with matched characters out of order, so
\* that the windowed matching and the transposition count both take part
C10_Witness ==
    /\ pc = "done" /\ op = "jaroWinklerSimilarity"
    /\ IsString(text1) /\ IsString(text2)
    /\ Len(text1.s) = 3 /\ Len(text2.s) = 4
    /\ result.value > 0 /\ result.value < 1000
    /\ LET mm == JaroMatches(text1.s, text2.s, 1, 1, {}, {})
       IN  /\ Cardinality(mm[1]) = 3
           /\ JaroTranspositions(text1.s, text2.s, mm[1], mm[2]) > 0
\* the keyword occurs in the text at an index i with 0 < i < length(text) - length(keyword)
OccursInside(text, kw) ==
    \E i \in 1..(Len(text) - Len(kw) - 1) : SubSeq(text, i + 1, i + Len(kw)) = kw

\* C11: calculateCompletenessScore awards the 0.25 keyword-context points (the
\* score is 0.25 above the score the text gets without a keyword) exactly when
\* the keyword has an occurrence strictly inside the text, also when it occurs
\* at position 0 as well.
C11_ContextPointsIffInside ==
    (/\ pc = "done" /\ op = "calculateCompletenessScore"
     /\ IsString(text1) /\ IsString(keyword))
        => (result.value.v - calculateCompletenessScore(text1, Null).value.v = 250000
            <=> OccursInside(text1.s, keyword.s))

\* the functions of src/similarity.js that take two vectors
VectorOps ==
    {"cosineSimilarity", "fastCosineSimilarity", "euclideanSimilarity",
     "manhattanSimilarity", "weightedCosineSimilarity", "pearsonCorrelation",
     "jaccardSimilarity", "ensembleSimilarity", "calculateAllSimilarities",
     "calculateSTTEnhancedSimilarities"}

\* C12: every function that takes two vectors throws the vector-length error,
\* and returns no score, whenever the two vectors differ in length.
C12_LengthMismatchRaises ==
    (pc = "done" /\ op \in VectorOps /\ Len(vec1) # Len(vec2))
        => result = VectorLengthError

\* calculateAllSimilarities called with vectors of lengths 1 and 2 and with
\* options that would make a step of its try block throw
C12_Witness ==
    /\ pc = "done" /\ op = "calculateAllSimilarities"
    /\ Len(vec1) = 1 /\ Len(vec2) = 2
    /\ options.ensembleWeights.t = "null" /\ options.weights.t = "array"
    /\ result = VectorLengthError

\* C13: without the STTSimilarity module, calculateSTTEnhancedSimilarities
\* still returns wherever calculateAllSimilarities does: its three string
\* entries are 0, and every entry of the map calculateAllSimilarities returns
\* for the same vectors and options is in its map with the same value.
C13_DegradesWithoutModule ==
    (/\ pc = "done" /\ op = "calculateSTTEnhancedSimilarities"
     /\ sttModule = "undefined"
     /\ calculateAllSimilarities(vec1, vec2, options).kind = "return")
        => /\ result.kind = "return"
           /\ Lookup(result.value, "stt_jaro_winkler") = Number(0)
           /\ Lookup(result.value, "stt_levenshtein") = Number(0)
           /\ Lookup(result.value, "stt_phonetic") = Number(0)
           /\ LET semantic == calculateAllSimilarities(vec1, vec2, options).value
              IN  \A i \in 1..Len(semantic) :
                      Lookup(result.value, semantic[i].key) = semantic[i].value

\* no module, two different texts and two vectors with a cosine that is not 0
C13_Witness ==
    /\ pc = "done" /\ op = "calculateSTTEnhancedSimilarities"
    /\ sttModule = "undefined"
    /\ text1 # text2
    /\ result.kind = "return"
    /\ Lookup(result.value, "cosine") \notin {Number(0), Number(1000)}
    /\ Lookup(result.value, "stt_jaro_winkler") = Number(0)

\* the second call is the call the client made before, with the same arguments
SameCallAgain ==
    /\ pc = "ready"
    /\ pc' = "done"
    /\ op' = op
    /\ ("weights" \in DOMAIN result) => (result'.weights = result.weights)
    /\ ("baseSimilarity" \in DOMAIN result)
           => (result'.baseSimilarity = result.baseSimilarity)

C15_DegenerateArgumentGivesZero ==
    (/\ pc = "done"
     /\ op \in StringMetricOps
     /\ \E x \in {text1, text2} : x \in NonStrings \/ x = Str(<<>>))
        => result = Returned(0)

\* the phonetic metric given the same empty string twice
C15_Witness ==
    /\ pc = "done"
    /\ op = "koreanPhoneticSimilarity"
    /\ text1 = Str(<<>>)
    /\ text2 = Str(<<>>)
    /\ result = Returned(0)

\* the canonical form is one the filter lets through: no keyword is given, or
\* one is a substring of the other
PassesFilter(correct) ==
    \/ keyword = Null
    \/ keyword = Str(<<>>)
    \/ \E i \in 0..(Len(correct) - Len(keyword.s)) :
           SubSeq(correct, i + 1, i + Len(keyword.s)) = keyword.s
    \/ \E i \in 0..(Len(keyword.s) - Len(correct)) :
           SubSeq(keyword.s, i + 1, i + Len(correct)) = correct

\* the entries of the lexicon with a variant that occurs in the text
MatchingEntries(text) ==
    {e \in 1..Len(lexicon) :
        \E k \in 1..Len(lexicon[e][2]) :
            \E i \in 0..(Len(text) - Len(lexicon[e][2][k])) :
                SubSeq(text, i + 1, i + Len(lexicon[e][2][k])) = lexicon[e][2][k]}

\* C16: correctSTTErrorsByPattern applies an entry only when no keyword is
\* given or the canonical form and the keyword contain one another; when the
\* filter excludes every matching entry the text comes back unchanged, with
\* no corrections and hasCorrections false.
C16_KeywordFilter ==
    (pc = "done" /\ op = "correctSTTErrorsByPattern" /\ result.kind = "return")
        => /\ \A c \in 1..Len(result.corrections) :
                  PassesFilter(result.corrections[c].corrected)
           /\ (\A e \in MatchingEntries(text1.s) : ~PassesFilter(lexicon[e][1]))
                  => /\ result.correctedText = text1
                     /\ result.corrections = <<>>
                     /\ result.hasCorrections = FALSE

\* hwa-gin hae, a variant of hwag-in, with the keyword peu-ro: the entry
\* matches, the filter excludes it
C16_Witness ==
    /\ pc = "done"
    /\ op = "correctSTTErrorsByPattern"
    /\ keyword = Str(<<"p_eu", "r_o">>)
    /\ text1 = Str(<<"h_wa", "g_i_n", "h_ae">>)
    /\ MatchingEntries(text1.s) # {}
    /\ result.kind = "return"
    /\ result.correctedText = text1
    /\ result.hasCorrections = FALSE

\* the candidate text2 holds the keyword nowhere, whatever the case of the letters
LacksKeyword ==
    \A i \in 0..(Len(text2.s) - Len(keyword.s)) :
        ToLowerCase(SubSeq(text2.s, i + 1, i + Len(keyword.s))) # ToLowerCase(keyword.s)

\* C17: whenever the candidate lacks the keyword (case-insensitively) and
\* jaroWinkler(keyword, candidate) < 0.7, calculateKeywordWeightedSimilarity
\* returns exactly baseSimilarity x 0.3, whatever the expected text is.
C17_KeywordPenalty ==
    (/\ pc = "done"
     /\ op = "calculateKeywordWeightedSimilarity"
     /\ IsString(text2)
     /\ IsString(keyword)
     /\ LacksKeyword
     /\ jaroWinklerSimilarity(keyword, text2) < 700)
        => /\ result.kind = "return"
           /\ result.value.k = "number"
           /\ 10 * result.value.v = 3 * result.baseSimilarity

\* the keyword hwag-in, the candidate ab ga and an expected text that is null
C17_Witness ==
    /\ pc = "done"
    /\ op = "calculateKeywordWeightedSimilarity"
    /\ sttModule = "object"
    /\ text1 = Null
    /\ text2 = Str(<<"a", "b", " ", "g_a">>)
    /\ keyword = Str(<<"h_wa_g", "x_i_n">>)
    /\ result.baseSimilarity = 500000
    /\ result.kind = "return"
    /\ result.value = Number(150000)

\* what p x s of the claim is divided by: 2 for a ratio of at most 0.3, times
\* 2 for a candidate of fewer than 10 characters
ClaimedDivisor(e, c) ==
    (IF 10 * Min2(c, e) > 3 * Max2(c, e) THEN 1 ELSE 2) * (IF c < 10 THEN 2 ELSE 1)

\* C18: with e and c the trimmed lengths, calculateLengthPenalty returns 0
\* when c = 0 and otherwise p x s, where r = min(c, e) / max(c, e), p = r if
\* r > 0.3 else r x 0.5, and s = 0.5 if c < 10 else 1 (here: the millionth
\* nearest to it); the result lies in [0, 1].
C18_LengthPenaltyFormula ==
    (/\ pc = "done"
     /\ op = "calculateLengthPenalty"
     /\ IsString(text1)
     /\ IsString(text2))
        => LET e == Len(Trim(text1.s))
               c == Len(Trim(text2.s))
               v == result.value.v
           IN  /\ result.kind = "return"
               /\ result.value.k = "number"
               /\ v >= 0
               /\ v <= Micro
               /\ c = 0 => v = 0
               /\ c > 0 =>
                      2 * Abs(v * Max2(c, e) * ClaimedDivisor(e, c) - Micro * Min2(c, e))
                          <= Max2(c, e) * ClaimedDivisor(e, c)

\* a candidate of ten syllables between blanks against an expected text of
\* three: the ratio is 0.3, halved once and not twice
C18_Witness ==
    /\ pc = "done"
    /\ op = "calculateLengthPenalty"
    /\ text1 = Str(Syllables(3))
    /\ text2 = Str(<<" ">> \o Syllables(10) \o <<" ", " ">>)
    /\ result = Returned(Number(150000))

\* C19: for a candidate that is empty or whitespace-only,
\* calculateSentenceEnhancedSimilarity returns lengthPenalty = 0 and
\* finalScore = 0, whatever the embeddings, expected text and keyword are.
C19_EmptyCandidateScoresZero ==
    (/\ pc = "done"
     /\ op = "calculateSentenceEnhancedSimilarity"
     /\ IsString(text2)
     /\ Len(Trim(text2.s)) = 0)
        => /\ result.kind = "return"
           /\ result.components.lengthPenalty = Number(0)
           /\ result.finalScore = Number(0)

\* entry i of the map holds the largest value, and no entry before it does
FirstMaximum(i) ==
    /\ \A j \in 1..Len(similarities) : similarities[j].value.v <= similarities[i].value.v
    /\ \A j \in 1..(i - 1) : similarities[j].value.v < similarities[i].value.v

\* entry i of the map holds the smallest value, and no entry before it does
FirstMinimum(i) ==
    /\ \A j \in 1..Len(similarities) : similarities[j].value.v >= similarities[i].value.v
    /\ \A j \in 1..(i - 1) : similarities[j].value.v > similarities[i].value.v

\* C20: for a non-empty metric map analyzeSimilarities reports as highest the
\* maximum value with the first key in iteration order that holds it, and as
\* lowest the minimum value with the first key that holds it.
C20_TiesResolveToFirstKey ==
    (pc = "done" /\ op = "analyzeSimilarities" /\ Len(similarities) > 0)
        => /\ \E i \in 1..Len(similarities) :
                  /\ FirstMaximum(i)
                  /\ result.value.highest.method = Method(similarities[i].key)
                  /\ result.value.highest.value = similarities[i].value
           /\ \E i \in 1..Len(similarities) :
                  /\ FirstMinimum(i)
                  /\ result.value.lowest.method = Method(similarities[i].key)
                  /\ result.value.lowest.value = similarities[i].value

\* a map whose largest value is held by its second and its third key
C20_Witness ==
    /\ pc = "done"
    /\ op = "analyzeSimilarities"
    /\ similarities = <<Entry("manhattan", Number(500)), Entry("cosine", Number(900)),
                         Entry("euclidean", Number(900))>>
    /\ result.value.highest.method = Method("cosine")
    /\ result.value.lowest.method = Method("manhattan")

\* C21: calculateAllSimilarities binarises with the caller's jaccardThreshold
\* whenever one is supplied, t = 0 included: the jaccard entry equals
\* round3(jaccardSimilarity(vec1, vec2, t)) (stated where no step throws).
C21_SuppliedThresholdUsed ==
    (/\ pc = "done"
     /\ op = "calculateAllSimilarities"
     /\ Len(vec1) = Len(vec2)
     /\ ~ThrowsInside(vec1, vec2, options)
     /\ options.jaccardThreshold.t = "number")
        => Lookup(result.value, "jaccard")
               = Round3(JaccardOf(vec1, vec2, options.jaccardThreshold.v))

\* the classic edit distance of two strings, by its recurrence: insertion,
\* deletion and substitution cost 1 each
RECURSIVE ClassicDistance(_, _)
ClassicDistance(a, b) ==
    IF Len(a) = 0 THEN Len(b)
    ELSE IF Len(b) = 0 THEN Len(a)
    ELSE LET a1 == SubSeq(a, 1, Len(a) - 1)
             b1 == SubSeq(b, 1, Len(b) - 1)
         IN  IF a[Len(a)] = b[Len(b)] THEN ClassicDistance(a1, b1)
             ELSE 1 + Min2(Min2(ClassicDistance(a1, b), ClassicDistance(a, b1)),
                           ClassicDistance(a1, b1))

\* C22: for non-empty distinct strings levenshteinSimilarity(a, b) is
\* 1 - d / max(len a, len b) rounded to 3 decimals, d the classic edit
\* distance (so the two-row swap reads no stale cell), and it is symmetric.
C22_LevenshteinIsClassic ==
    (/\ pc = "done"
     /\ op = "levenshteinSimilarity"
     /\ IsString(text1) /\ IsString(text2)
     /\ Len(text1.s) > 0 /\ Len(text2.s) > 0
     /\ text1 # text2)
        => LET longest == IF Len(text1.s) >= Len(text2.s) THEN Len(text1.s)
                          ELSE Len(text2.s)
               d == ClassicDistance(text1.s, text2.s)
           IN  /\ 2 * Abs(result.value * longest - 1000 * (longest - d)) <= longest
               /\ result.value = levenshteinSimilarity(text2, text1)

\* peu-ro-seu-ke-il-reo against ma-tin: six characters against two, none shared
C22_Witness ==
    /\ pc = "done"
    /\ op = "levenshteinSimilarity"
    /\ text1 = Str(Proscaler)
    /\ text2 = Str(Martin)
    /\ ClassicDistance(text1.s, text2.s) = 6
    /\ result = Returned(0)

\* the configurations of calculateEnhancedSTTSimilarity for the arguments at
\* hand: each with its score as `enhanced` would hold it (hundred-thousandths)
\* and its CorrectionRecords; the raw pair has none
Configurations ==
    LET correction1 == correctSTTErrorsByPattern(text1, keyword)
        correction2 == correctSTTErrorsByPattern(text2, keyword)
        raw == [name |-> "raw",
                score |-> calculateSTTSimilarity(text1, text2, NoWeights).weighted * 100,
                records |-> <<>>]
        first == [name |-> "s1",
                  score |-> calculateSTTSimilarity(correction1.correctedText, text2,
                                                   NoWeights).weighted * 95,
                  records |-> correction1.corrections]
        second == [name |-> "s2",
                   score |-> calculateSTTSimilarity(text1, correction2.correctedText,
                                                    NoWeights).weighted * 95,
                   records |-> correction2.corrections]
        both == [name |-> "both",
                 score |-> calculateSTTSimilarity(correction1.correctedText,
                                                  correction2.correctedText,
                                                  NoWeights).weighted * 90,
                 records |-> correction1.corrections \o correction2.corrections]
    IN  {raw} \cup (IF correction1.hasCorrections THEN {first} ELSE {})
              \cup (IF correction2.hasCorrections THEN {second} ELSE {})
              \cup (IF correction1.hasCorrections /\ correction2.hasCorrections
                    THEN {both} ELSE {})

\* C23: the corrections returned by calculateEnhancedSTTSimilarity are the
\* records of a configuration whose score is the returned `enhanced`, and the
\* list is empty, with hasCorrections false, exactly when `enhanced` is the
\* raw pair's score.
C23_CorrectionsOfWinner ==
    (/\ pc = "done"
     /\ op = "calculateEnhancedSTTSimilarity"
     /\ result.kind = "return")
        => /\ \E c \in Configurations :
                  /\ c.score = result.enhanced
                  /\ c.records = result.corrections
           /\ (result.corrections = <<>>) <=> (~result.hasCorrections)
           /\ (result.corrections = <<>>)
                  <=> (result.enhanced = result.originalSimilarity * 100)

\* weighted * penalty for two numbers in millionths, in millionths; the
\* penalty is split in thousands so that no product leaves 32 bits
TimesMicro(weighted, penalty) ==
    LET high == weighted * (penalty \div 1000)
        low  == weighted * (penalty % 1000)
    IN  (high \div 1000) + RoundDiv((high % 1000) * 1000 + low, Micro)

\* the final score the reported components give:
\* min(1, (0.4 kw + 0.25 base + 0.2 stt + 0.15 completeness) * lengthPenalty)
ScoreOfComponents(c) ==
    Min2(TimesMicro(RoundDiv(40 * c.keywordWeighted.v + 25 * c.baseSimilarity.v
                                 + 20 * c.sttCorrected.v + 15 * c.completeness.v,
                             100),
                    c.lengthPenalty.v),
         Micro)

\* C24: the finalScore returned by calculateSentenceEnhancedSimilarity is
\* min(1.0, (0.4 keywordWeighted + 0.25 baseSimilarity + 0.2 sttCorrected
\* + 0.15 completeness) * lengthPenalty) of the five values reported in
\* components (to two millionths, the values being held to the millionth).
C24_FinalScoreOfComponents ==
    (/\ pc = "done"
     /\ op = "calculateSentenceEnhancedSimilarity"
     /\ result.kind = "return")
        => Abs(result.finalScore.v - ScoreOfComponents(result.components)) <= 2

\* a call whose length penalty is strictly between 0 and 1 and bites
C24_Witness ==
    /\ pc = "done"
    /\ op = "calculateSentenceEnhancedSimilarity"
    /\ result.kind = "return"
    /\ result.components.lengthPenalty.v \in 1..(Micro - 1)
    /\ result.components.keywordWeighted.v > 0
    /\ result.components.sttCorrected.v > 0
    /\ result.components.completeness.v > 0
    /\ result.finalScore.v > 0
    /\ result.finalScore.v < result.components.keywordWeighted.v

\* either character lists the other in the confusion table
Confusable(c, d) ==
    \E k \in DOMAIN phoneticMap :
        \/ k = c /\ d \in phoneticMap[k]
        \/ k = d /\ c \in phoneticMap[k]

\* the per-position scores of two strings summed over the positions both
\* have, in tenths: 1.0 for equal characters, 0.8 for confusable ones
RECURSIVE PositionScores(_, _, _)
PositionScores(a, b, n) ==
    IF n = 0 THEN 0
    ELSE PositionScores(a, b, n - 1)
             + (IF a[n] = b[n] THEN 10 ELSE IF Confusable(a[n], b[n]) THEN 8 ELSE 0)

CorrectedCandidates ==
    LET patterns == getSentenceSTTErrorPatterns(sttModule)
    IN  {ReplaceFirst(text2.s, patterns[e][2][k], patterns[e][1]) :
            <<e, k>> \in {p \in (1..Len(patterns)) \X (1..4) :
                             /\ p[2] <= Len(patterns[p[1]][2])
                             /\ Includes(text1.s, patterns[p[1]][1])
                             /\ Includes(text2.s, patterns[p[1]][2][p[2]])}}

\* the ensemble score of text1 against a candidate, in millionths
UncorrectedScore(candidate) ==
    IF sttModule = "undefined" THEN 0
    ELSE 10 * calculateEnsemble(text1, Str(candidate), Null).value

\* C26: enhancedSTTErrorCheck(expected, candidate) is the maximum of the
\* uncorrected ensemble score and 0.9 times the ensemble score of every
\* candidate got by putting a lexicon variant found in the candidate back to
\* its canonical form, when the expected text holds that canonical form; it
\* is never below the uncorrected score, and it is 0 without the STT module.
C26_MaximumOverCorrections ==
    (/\ pc = "done"
     /\ op = "enhancedSTTErrorCheck")
        => LET scores == {UncorrectedScore(text2.s)}
                             \cup {(9 * UncorrectedScore(c)) \div 10 :
                                      c \in CorrectedCandidates}
           IN  /\ result.kind = "return"
               /\ result.value.v \in scores
               /\ \A x \in scores : x <= result.value.v
               /\ result.value.v >= UncorrectedScore(text2.s)
               /\ sttModule = "undefined" => result.value.v = 0

\* a corrected candidate there is, and the call has returned
C26_Witness ==
    /\ pc = "done"
    /\ op = "enhancedSTTErrorCheck"
    /\ sttModule = "object"
    /\ CorrectedCandidates # {}
    /\ result.value.v > UncorrectedScore(text2.s)

\* C27: in the map calculateSTTEnhancedSimilarities returns, stt_ensemble is
\* round3(0.4 cosine + 0.25 stt_jaro_winkler + 0.20 stt_phonetic
\* + 0.15 stt_levenshtein) of the entries of the same map.
C27_EnsembleOfOwnEntries ==
    (/\ pc = "done"
     /\ op = "calculateSTTEnhancedSimilarities"
     /\ IsString(text1) /\ IsString(text2)
     /\ result.kind = "return")
        => LET cosine      == Lookup(result.value, "cosine")
               jaroWinkler == Lookup(result.value, "stt_jaro_winkler")
               phonetic    == Lookup(result.value, "stt_phonetic")
               levenshtein == Lookup(result.value, "stt_levenshtein")
           IN  Lookup(result.value, "stt_ensemble")
                   = IF IsFinite(cosine)
                     THEN Number((40 * cosine.v + 25 * jaroWinkler.v + 20 * phonetic.v
                                      + 15 * levenshtein.v + 50) \div 100)
                     ELSE NaN

\* peu-ro-seu-ke-il-reo against keu-ro-seu-ke-il-reo, the vectors 45 degrees
\* apart: 0.4 * 0.707 + 0.25 * 0.889 + 0.2 * 0.833 + 0.15 * 0.833 = 0.7966
C27_Witness ==
    /\ pc = "done"
    /\ op = "calculateSTTEnhancedSimilarities"
    /\ sttModule = "object"
    /\ text2 = Str(Croscaler)
    /\ result.kind = "return"
    /\ Lookup(result.value, "cosine") = Number(707)
    /\ Lookup(result.value, "stt_jaro_winkler") = Number(889)
    /\ Lookup(result.value, "stt_phonetic") = Number(833)
    /\ Lookup(result.value, "stt_levenshtein") = Number(833)
    /\ Lookup(result.value, "stt_ensemble") = Number(797)

\* C28: correctSTTErrorsByPattern is idempotent: applied with the same
\* keyword to its own correctedText it returns that text unchanged, with no
\* corrections.
C28_CorrectionIdempotent ==
    (/\ pc = "done"
     /\ op = "correctSTTErrorsByPattern"
     /\ result.kind = "return")
        => LET again == correctSTTErrorsByPattern(result.correctedText, keyword)
           IN  /\ again.kind = "return"
               /\ again.correctedText = result.correctedText
               /\ again.corrections = <<>>
               /\ ~again.hasCorrections

\* C29: every CorrectionRecord correctSTTErrorsByPattern produces has a
\* position >= 0 at which its original occurs in the text passed to the call.
C29_PositionInInput ==
    (/\ pc = "done"
     /\ op = "correctSTTErrorsByPattern"
     /\ result.kind = "return")
        => \A i \in 1..Len(result.corrections) :
               LET record == result.corrections[i]
               IN  /\ record.position >= 0
                   /\ record.position + Len(record.original) <= Len(text1.s)
                   /\ SubSeq(text1.s, record.position + 1,
                             record.position + Len(record.original)) = record.original

\* C30: whenever the base embedding similarity is in [-1, 1], the finalScore
\* calculateSentenceEnhancedSimilarity returns and the components
\* keywordWeighted, sttCorrected, completeness and lengthPenalty are in [0, 1].
C30_ScoresInUnitInterval ==
    (/\ pc = "done"
     /\ op = "calculateSentenceEnhancedSimilarity"
     /\ result.kind = "return"
     /\ result.components.baseSimilarity.v \in (-Micro)..Micro)
        => /\ result.finalScore.v \in 0..Micro
           /\ result.components.keywordWeighted.v \in 0..Micro
           /\ result.components.sttCorrected.v \in 0..Micro
           /\ result.components.completeness.v \in 0..Micro
           /\ result.components.lengthPenalty.v \in 0..Micro

====================================================================
